---- MODULE Spec2Model ----
(***************************************************************************)
(* Model of the js13k-vite-plugins embedding and config-merge pipeline:    *)
(*   - addDefaultValues / isObject (utils.ts), on a heap of JavaScript     *)
(*     objects so that mutation, identity and aliasing are visible;        *)
(*   - roadrollerPlugin.transformIndexHtml.transform with embedCss and     *)
(*     embedJs (roadroller.ts), as the async state machine the code is.    *)
(***************************************************************************)
EXTENDS Integers, Sequences, FiniteSets, TLC

\* ------------------------------------------------------------------------
\* Bounds of the model
\* ------------------------------------------------------------------------
\* Longest array literal drawn for a configuration value.
MaxArrLen == 2
\* Longest HTML document (in tokens) handed to the transform.
MaxHtmlLen == 3
\* Largest number of entries of the bundle.
MaxBundle == 3
MaxFiles == 4
MaxEntries == 2
MaxImages == 2
MaxInvocations == 2
MaxClock == 2
MaxTime == 4
MaxRuns == 2

\* ========================================================================
\* PART 1 - JavaScript values and addDefaultValues
\* ========================================================================

\* A JavaScript value is a primitive or a reference to a heap object.
\* "absent" is not a value: it marks a property the object does not own.
P(s) == [t |-> "prim", v |-> s]
Ref(id) == [t |-> "ref", v |-> id]
Undefined == P("undefined")
Null == P("null")
False == P("false")
Absent == [t |-> "absent", v |-> ""]

\* Property names: two named keys, and the index keys of arrays.
NamedKeys == <<"x", "y">>
IdxName == <<"0", "1", "2", "3">>
IndexKeys == SubSeq(IdxName, 1, MaxArrLen)
\* Object.entries order: integer keys ascending, then the named keys in
\* insertion order (every object literal of the model is written x before y).
KeyOrder == IndexKeys \o NamedKeys
AllKeys == {KeyOrder[i] : i \in 1..Len(KeyOrder)}

\* Heap objects: plain objects and arrays; props maps every property name to
\* its value, Absent for a property the object does not have.
ObjIds == {"u", "u.x", "u.x.x", "d", "d.x", "d.x.x", "e", "e.x", "e.x.x"}
NoObject == [kind |-> "none", props |-> [k \in AllKeys |-> Absent]]

\* !a  (ToBoolean): undefined, null, false and 0 are falsy; objects are truthy.
Falsy(a) == a.t = "prim" /\ a.v \in {"undefined", "null", "false", "0"}

\* isObject(item): !!item && typeof item === 'object'.  typeof null is
\* 'object' but null is falsy; typeof of an array is 'object'.
isObject(h, item) == item.t = "ref" /\ h[item.v].kind \in {"object", "array"}

\* a[k]: reading a property that is not there yields undefined.
Get(h, a, k) == IF h[a.v].props[k] = Absent THEN Undefined ELSE h[a.v].props[k]

\* a[k] = v
Put(h, a, k, v) == [h EXCEPT ![a.v].props[k] = v]

\* Object.entries(b): the own properties of b, in property order.
Entries(h, b) == SelectSeq(KeyOrder, LAMBDA k : h[b.v].props[k] # Absent)

RECURSIVE addDefaultValues(_, _, _)
RECURSIVE MergeLoop(_, _, _, _, _)

\* Variant of the loop with the test written as `if (!a[k])`.
MergeLoopFalsyTest(h, a, b, ents, i) ==
  IF i > Len(ents) THEN h
  ELSE LET k == ents[i]
           v == h[b.v].props[k]
           ak == Get(h, a, k)
       IN IF Falsy(ak)
            THEN MergeLoop(Put(h, a, k, v), a, b, ents, i + 1)
          ELSE IF isObject(h, v) /\ isObject(h, ak)
            THEN LET r == addDefaultValues(h, ak, v)
                 IN MergeLoop(Put(r.heap, a, k, r.ret), a, b, ents, i + 1)
          ELSE MergeLoop(h, a, b, ents, i + 1)

\* Variant of the loop with the test written as `if (!(k in a))`.
MergeLoopOwnKey(h, a, b, ents, i) ==
  IF i > Len(ents) THEN h
  ELSE LET k == ents[i]
           v == h[b.v].props[k]
           ak == Get(h, a, k)
       IN IF h[a.v].props[k] = Absent
            THEN MergeLoop(Put(h, a, k, v), a, b, ents, i + 1)
          ELSE IF isObject(h, v) /\ isObject(h, ak)
            THEN LET r == addDefaultValues(h, ak, v)
                 IN MergeLoop(Put(r.heap, a, k, r.ret), a, b, ents, i + 1)
          ELSE MergeLoop(h, a, b, ents, i + 1)

\* Variant of the loop that leaves the loop after its first assignment.
MergeLoopEarlyExit(h, a, b, ents, i) ==
  IF i > Len(ents) THEN h
  ELSE LET k == ents[i]
           v == h[b.v].props[k]
           ak == Get(h, a, k)
       IN IF ak = Undefined
            THEN Put(h, a, k, v)
          ELSE IF isObject(h, v) /\ isObject(h, ak)
            THEN LET r == addDefaultValues(h, ak, v)
                 IN MergeLoop(Put(r.heap, a, k, r.ret), a, b, ents, i + 1)
          ELSE MergeLoop(h, a, b, ents, i + 1)

\* The for loop of addDefaultValues, from the i-th entry of the entries
\* snapshot ents of b.  Returns the heap after the loop.
MergeLoop(h, a, b, ents, i) ==
  IF i > Len(ents) THEN h
  ELSE LET k == ents[i]
           v == h[b.v].props[k]
           ak == Get(h, a, k)
       IN IF ak = Undefined
            THEN MergeLoop(Put(h, a, k, v), a, b, ents, i + 1)
          ELSE IF isObject(h, v) /\ isObject(h, ak)
            THEN LET r == addDefaultValues(h, ak, v)
                 IN MergeLoop(Put(r.heap, a, k, r.ret), a, b, ents, i + 1)
          ELSE MergeLoop(h, a, b, ents, i + 1)

\* Variant of addDefaultValues whose early return hands back a.
addDefaultValuesReturnsA(h, a, b) ==
  IF Falsy(a) THEN [heap |-> h, ret |-> a]
  ELSE [heap |-> MergeLoop(h, a, b, Entries(h, b), 1), ret |-> a]

\* addDefaultValues(a, b): returns the new heap and the returned value.
addDefaultValues(h, a, b) ==
  IF Falsy(a) THEN [heap |-> h, ret |-> b]
  ELSE [heap |-> MergeLoop(h, a, b, Entries(h, b), 1), ret |-> a]

\* ------------------------------------------------------------------------
\* Configuration literals the merge is called with
\* ------------------------------------------------------------------------
\* Primitive property values of a configuration literal.
Leaf == {Undefined, Null, False, P("1")}
LeafOrAbsent == Leaf \cup {Absent}
ArrElem == {P("0"), P("1")}

Obj(px, py) ==
  [t |-> "object",
   f |-> [k \in AllKeys |-> IF k = "x" THEN px ELSE IF k = "y" THEN py ELSE Absent]]
Arr(elems) ==
  [t |-> "array",
   f |-> [k \in AllKeys |->
            IF \E i \in 1..Len(elems) : IndexKeys[i] = k
              THEN elems[CHOOSE i \in 1..Len(elems) : IndexKeys[i] = k]
              ELSE Absent]]
IsComposite(d) == d.t \in {"object", "array"}

\* Innermost objects: {} and {x: 1}, {x: false}.
GrandLit == {Obj(px, Absent) : px \in {Absent, False, P("1")}}
\* Nested values: objects {x?, y?} and arrays of primitives.
ArrLit == {Arr(e) : e \in UNION {[1..n -> ArrElem] : n \in 0..MaxArrLen}}
ChildLit == {Obj(px, py) : px \in LeafOrAbsent \cup GrandLit, py \in LeafOrAbsent}
              \cup ArrLit
\* Top-level configuration objects {x?, y?}.
RootLit == {Obj(px, py) : px \in LeafOrAbsent \cup ChildLit, py \in LeafOrAbsent}

\* Allocation of a literal on the heap: the object at root id, its nested
\* object at id.x, and that one's nested object at id.x.x.
ValueOf(id, d) == IF IsComposite(d) THEN Ref(id) ELSE d
AllocObj(d, childId) ==
  [kind |-> d.t,
   props |-> [k \in AllKeys |-> IF k = "x" THEN ValueOf(childId, d.f[k]) ELSE d.f[k]]]
Alloc(h, id, lit) ==
  LET c == lit.f["x"]
      g == IF IsComposite(c) THEN c.f["x"] ELSE Absent
      id1 == IF id = "u" THEN "u.x" ELSE IF id = "d" THEN "d.x" ELSE "e.x"
      id2 == IF id = "u" THEN "u.x.x" ELSE IF id = "d" THEN "d.x.x" ELSE "e.x.x"
  IN [o \in ObjIds |->
        IF o = id THEN AllocObj(lit, id1)
        ELSE IF o = id1 /\ IsComposite(c) THEN AllocObj(c, id2)
        ELSE IF o = id2 /\ IsComposite(g) THEN AllocObj(g, id2)
        ELSE h[o]]
EmptyHeap == [o \in ObjIds |-> NoObject]

\* Structural equality of value v1 in heap h1 and value v2 in heap h2.
RECURSIVE StructEq(_, _, _, _)
StructEq(h1, v1, h2, v2) ==
  IF v1.t = "ref" /\ v2.t = "ref"
    THEN /\ h1[v1.v].kind = h2[v2.v].kind
         /\ \A k \in AllKeys :
              StructEq(h1, h1[v1.v].props[k], h2, h2[v2.v].props[k])
    ELSE v1 = v2

\* ------------------------------------------------------------------------
\* State of a caller of addDefaultValues
\* ------------------------------------------------------------------------
VARIABLES
  heap,    \* the JavaScript heap
  user,    \* argument a of the call
  defs,    \* argument b of the call
  calls,   \* per completed call: the heap before, the heap after, the result
  mpc      \* "ready", then "merged" after a call, "remerged" after a second

mvars == <<heap, user, defs, calls, mpc>>

\* State of one call of roadrollerPlugin.transformIndexHtml.transform.
VARIABLES
  tpc,        \* position of the transform: idle, minifying, optimizing, done, rejected
  mode,       \* how the hook was called: "noctx", "nobundle" or "build"
  input,      \* the html argument
  bundle0,    \* ctx.bundle (its keys in order) when the hook was called
  html,       \* the local variable html
  bundle,     \* ctx.bundle now
  bundleKeys, \* the local const bundleKeys
  inputs,     \* the inputs of the Packer under construction in embedJs
  log,        \* the calls to the external tools and their outcomes, in order
  result,     \* the document the transform resolved with
  error       \* the error the transform rejected with

tvars == <<tpc, mode, input, bundle0, html, bundle, bundleKeys, inputs, log, result, error>>

\* State of the other plugins and helpers, described where they are modelled.
VARIABLES
  spc,        \* ectPlugin file listing: "idle", "sorted"
  globbed,    \* the paths glob.sync returned, in its order
  files       \* the list handed to ect, after the sort

svars == <<spc, globbed, files>>

VARIABLES
  wpc,        \* readAllFiles: "idle", "walked"
  tree,       \* the directory tree: path -> what is found there
  walkReg,    \* whether a RegExp filter is passed
  walked      \* the outcome of the call

wvars == <<wpc, tree, walkReg, walked>>

VARIABLES
  bpc,        \* hookParallel('closeBundle'): "idle", "running", "resolved", "rejected"
  version,    \* which revision of the ECT and advzip plugins is installed
  config,     \* how the plugin list was made
  plugins,    \* the plugin list, in order
  hook,       \* plugin -> state of the promise of its closeBundle
  herror,     \* plugin -> message of the error its closeBundle rejected with
  imgCond,    \* public image -> what happens when it is processed
  imgSt,      \* public image -> state of its callback
  zip,        \* index.zip in the output directory
  mtimeCache, \* the images with an mtimeCache entry
  blog        \* what the hooks did, in order

bvars == <<bpc, version, config, plugins, hook, herror, imgCond, imgSt, zip,
           mtimeCache, blog>>

VARIABLES
  now,            \* Date.now()
  preserveOutput, \* the option of the closure plugin
  inv,            \* invocation of renderChunk -> its state
  disk            \* timestamp -> the closure-input and closure-output files of that name

cvars == <<now, preserveOutput, inv, disk>>

VARIABLES
  gpc,          \* configuration: "idle", "configured", "imagemin"
  jsVariant,    \* which js13kViteConfig was called
  jsOptions,    \* the options it was called with
  jsConfig,     \* what it returned: build and plugins
  imPassed,     \* per call of imageminPlugin: the options passed
  imOptions,    \* per call: the caller's options object after the call
  imMerged,     \* per call: imageminOptions
  imPlugins     \* per call: the compressors processFile hands to imagemin.buffer

gvars == <<gpc, jsVariant, jsOptions, jsConfig, imPassed, imOptions, imMerged, imPlugins>>

VARIABLES
  rpc,          \* imagemin closeBundle: "idle" or "running"
  clock,        \* the time, in ticks of the file system's clock
  outFiles,     \* the public images that are in the output directory
  mtimeMs,      \* per image in the output directory: its modification time
  cachedMs,     \* mtimeCache: relative path -> Date.now() of its last compression
  handles,      \* per public image: where its callback of this run is
  runs,         \* how many times closeBundle was called
  rlog          \* what the callbacks read and wrote

rvars == <<rpc, clock, outFiles, mtimeMs, cachedMs, handles, runs, rlog>>
xvars == <<svars, wvars, bvars, cvars, gvars, rvars>>

\* The listing of the output directory before closeBundle runs.
InitSortIdle ==
  /\ spc = "idle"
  /\ globbed = <<>>
  /\ files = <<>>

\* readAllFiles before it is called.
InitWalkIdle ==
  /\ wpc = "idle"
  /\ tree = <<>>
  /\ walkReg = FALSE
  /\ walked = [thrown |-> FALSE, arr |-> <<>>]

HookNames == {"imagemin", "ect", "advzip"}

\* The build before closeBundle is called.
InitBuildIdle ==
  /\ bpc = "idle"
  /\ version = "v1"
  /\ config = [kind |-> "js13k", imageMin |-> TRUE, roadroller |-> TRUE, advzip |-> TRUE]
  /\ plugins = <<>>
  /\ hook = [p \in HookNames |-> "none"]
  /\ herror = [p \in HookNames |-> ""]
  /\ imgCond = <<>>
  /\ imgSt = <<>>
  /\ zip = "none"
  /\ mtimeCache = {}
  /\ blog = <<>>

\* No file: the content of a temporary file that does not exist.
NoFile == 0
IdleInvocation == [st |-> "idle", ts |-> 0, read |-> NoFile, result |-> NoFile]

\* The closure plugin before renderChunk is called, with preserveOutput
\* not set.
InitClosureIdle ==
  /\ now = 0
  /\ preserveOutput = FALSE
  /\ inv = [i \in 1..MaxInvocations |-> IdleInvocation]
  /\ disk = [t \in 0..MaxClock |-> [input |-> NoFile, output |-> NoFile]]

\* Before js13kViteConfig or imageminPlugin is called.
InitConfigIdle ==
  /\ gpc = "idle"
  /\ jsVariant = "imagemin"
  /\ jsOptions = <<>>
  /\ jsConfig = <<>>
  /\ imPassed = <<>>
  /\ imOptions = <<>>
  /\ imMerged = <<>>
  /\ imPlugins = <<>>

\* The images of the public directory, in the order readAllFiles lists
\* them.
PublicFiles == <<"icon.svg", "logo.png">>
PublicImages == {PublicFiles[i] : i \in 1..Len(PublicFiles)}

\* mtimeMs has a finer resolution than Date.now(), which counts whole
\* milliseconds: a millisecond is this many ticks.
TicksPerMs == 2

\* A new imageminPlugin instance: mtimeCache is empty and no build has
\* written to the output directory.
InitRebuildIdle ==
  /\ rpc = "idle"
  /\ clock = TicksPerMs
  /\ outFiles = {}
  /\ mtimeMs = [i \in PublicImages |-> 0]
  /\ cachedMs = <<>>
  /\ handles = [i \in PublicImages |-> "none"]
  /\ runs = 0
  /\ rlog = <<>>

\* The other plugins and helpers before they are used.
InitOthersIdle ==
  /\ InitSortIdle /\ InitWalkIdle /\ InitBuildIdle /\ InitClosureIdle /\ InitConfigIdle
  /\ InitRebuildIdle
vars == <<mvars, tvars, xvars>>

\* The user argument is absent / falsy, or a configuration literal.
InitMergeArgs ==
  /\ \E dl \in RootLit :
       \/ \E ul \in RootLit :
            /\ heap = Alloc(Alloc(EmptyHeap, "d", dl), "u", ul)
            /\ user = Ref("u")
       \/ /\ heap = Alloc(EmptyHeap, "d", dl)
          /\ user \in {Undefined, Null, False}
  /\ defs = Ref("d")
  /\ calls = <<>>
  /\ mpc = "ready"

\* const merged = addDefaultValues(user, defaults)
CallMerge ==
  /\ mpc = "ready"
  /\ LET r == addDefaultValues(heap, user, defs)
     IN /\ heap' = r.heap
        /\ calls' = Append(calls, [a |-> user, b |-> defs, pre |-> heap, post |-> r.heap, ret |-> r.ret])
  /\ mpc' = "merged"
  /\ UNCHANGED <<user, defs>>
  /\ UNCHANGED <<tvars, xvars>>

\* addDefaultValues(merged, defaults): the result of the first call is merged
\* with the same defaults again.
CallMergeAgain ==
  /\ mpc = "merged"
  /\ LET a == calls[1].ret
         r == addDefaultValues(heap, a, defs)
     IN /\ heap' = r.heap
        /\ calls' = Append(calls, [a |-> a, b |-> defs, pre |-> heap, post |-> r.heap, ret |-> r.ret])
  /\ mpc' = "remerged"
  /\ UNCHANGED <<user, defs>>
  /\ UNCHANGED <<tvars, xvars>>


\* Other defaults objects a merged configuration is merged with later:
\* {x: {x: {x: 1}}}, {x: {y: 1}, y: 1} and {x: [1]}.
OtherDefaultsLit ==
  {Obj(Obj(Obj(P("1"), Absent), Absent), Absent),
   Obj(Obj(Absent, P("1")), P("1")),
   Obj(Arr(<<P("1")>>), Absent)}

\* addDefaultValues(merged, otherDefaults): the result of the first call is
\* the user argument of a call with another defaults object.
CallMergeOther ==
  /\ mpc = "merged"
  /\ \E el \in OtherDefaultsLit :
       LET h == Alloc(heap, "e", el)
           a == calls[1].ret
           r == addDefaultValues(h, a, Ref("e"))
       IN /\ heap' = r.heap
          /\ calls' = Append(calls, [a |-> a, b |-> Ref("e"), pre |-> h,
                                     post |-> r.heap, ret |-> r.ret])
  /\ mpc' = "merged2"
  /\ UNCHANGED <<user, defs>>
  /\ UNCHANGED <<tvars, xvars>>

\* ========================================================================
\* PART 2 - roadrollerPlugin: transformIndexHtml, embedCss, embedJs
\* ========================================================================

\* An HTML document is a sequence of tokens: whitespace, content, a
\* <link href> tag, a <script src></script> tag, a <style> element, or the
\* <script> element that holds the packer's two decoder lines.
Tok(tag, arg) == [tag |-> tag, arg |-> arg, lines |-> <<>>]
Ws == Tok("ws", " ")
Text == Tok("text", "<canvas>")
Link(href) == Tok("link", href)
ScriptSrc(src) == Tok("scriptsrc", src)
Style(css) == Tok("style", css)

InputTokens == {Ws, Text, Link("./style.css"), ScriptSrc("main.js")}
Docs == UNION {[1..n -> InputTokens] : n \in 0..MaxHtmlLen}

\* The bundle: output file name -> asset or chunk, in insertion order.
BundleKeys == {"style.css", "extra.css", "main.js", "lib.js", "img.png"}
CssSource == [k \in BundleKeys |->
                IF k = "style.css" THEN "body{color:red;}"
                ELSE IF k = "extra.css" THEN "p { }" ELSE ""]
JsCode == [k \in BundleKeys |->
             IF k = "main.js" THEN <<"ws", "console.log(1)", "ws">>
             ELSE IF k = "lib.js" THEN <<"x=1">> ELSE <<>>]
Entry(k) == [fileName |-> k, source |-> CssSource[k], code |-> JsCode[k]]
Bundles ==
  {b \in UNION {[1..n -> BundleKeys] : n \in 0..MaxBundle} :
     \A i, j \in 1..Len(b) : i # j => b[i] # b[j]}

\* key.endsWith('.css'), key.endsWith('.js')
EndsWithCss(k) == k \in {"style.css", "extra.css"}
EndsWithJs(k) == k \in {"main.js", "lib.js"}

\* Array.prototype.find: the first element that satisfies the test, or
\* "" (undefined) when there is none.
NoKey == ""
\* Variant of the lookup that returns the last key with the suffix.
FindCssLast(keys) ==
  IF \E i \in 1..Len(keys) : EndsWithCss(keys[i])
    THEN keys[CHOOSE i \in 1..Len(keys) :
                /\ EndsWithCss(keys[i])
                /\ \A j \in (i + 1)..Len(keys) : ~EndsWithCss(keys[j])]
    ELSE NoKey
FindCss(keys) ==
  IF \E i \in 1..Len(keys) : EndsWithCss(keys[i])
    THEN keys[CHOOSE i \in 1..Len(keys) :
                /\ EndsWithCss(keys[i])
                /\ \A j \in 1..(i - 1) : ~EndsWithCss(keys[j])]
    ELSE NoKey
FindJs(keys) ==
  IF \E i \in 1..Len(keys) : EndsWithJs(keys[i])
    THEN keys[CHOOSE i \in 1..Len(keys) :
                /\ EndsWithJs(keys[i])
                /\ \A j \in 1..(i - 1) : ~EndsWithJs(keys[j])]
    ELSE NoKey

\* Variant of the delete that drops every key with the suffix of key.
DeleteSameSuffix(b, key) ==
  SelectSeq(b, LAMBDA k : /\ ~(EndsWithCss(k) /\ EndsWithCss(key))
                          /\ ~(EndsWithJs(k) /\ EndsWithJs(key)))

\* delete ctx.bundle[key]
Delete(b, key) == SelectSeq(b, LAMBDA k : k # key)

\* String.prototype.replace with a non-global RegExp: hits are the positions
\* of the tokens the RegExp matches; the first of them is replaced by the
\* replacement, a document without a match is returned as it is.
ReplaceFirst(doc, hits, repl) ==
  IF hits # {}
    THEN LET i == CHOOSE i \in hits : \A j \in hits : i <= j
         IN SubSeq(doc, 1, i - 1) \o repl \o SubSeq(doc, i + 1, Len(doc))
    ELSE doc

\* new CleanCSS({ level: 2 }).minify(source).styles
CleanCss(source) ==
  IF source = "body{color:red;}" THEN "body{color:red}"
  ELSE IF source = "p { }" THEN ""
  ELSE source

\* <link [^>]*?href="[./]*FILE"[^>]*?>
StripDotsAndSlashes(href) == IF href = "./style.css" THEN "style.css" ELSE href
LinkMatches(tok, fileName) ==
  tok.tag = "link" /\ StripDotsAndSlashes(tok.arg) = fileName

\* embedCss(html, asset)
embedCss(doc, asset) ==
  ReplaceFirst(doc, {i \in 1..Len(doc) : LinkMatches(doc[i], asset.fileName)},
               <<Style(CleanCss(asset.source))>>)

\* htmlMinify.minify(html, options) with collapseWhitespace and
\* removeComments: whitespace between tags is dropped.
HtmlMinify(doc) == SelectSeq(doc, LAMBDA t : t.tag # "ws")

\* <script[^>]*?FILE[^>]*?></script>
ScriptMatches(tok, fileName) == tok.tag = "scriptsrc" /\ tok.arg = fileName

\* String.prototype.trim on the chunk code.
RECURSIVE TrimStart(_)
TrimStart(c) == IF c # <<>> /\ Head(c) = "ws" THEN TrimStart(Tail(c)) ELSE c
RECURSIVE TrimEnd(_)
TrimEnd(c) ==
  IF c # <<>> /\ c[Len(c)] = "ws" THEN TrimEnd(SubSeq(c, 1, Len(c) - 1)) ELSE c
Trim(c) == TrimEnd(TrimStart(c))

\* Variant of embedJs that writes the document with the script tag left in.
PackerInputsKeepTag(doc, chunk) ==
  <<[data |-> [write |-> doc, code |-> Trim(chunk.code)],
     type |-> "js", action |-> "eval"]>>

\* embedJs, up to `await packer.optimize(2)`: the inputs of the Packer.
\* data is `document.write('${scriptTagRemoved}');` + chunk.code.trim().
PackerInputs(doc, chunk) ==
  LET scriptTagRemoved ==
        ReplaceFirst(doc, {i \in 1..Len(doc) : ScriptMatches(doc[i], chunk.fileName)}, <<>>)
  IN <<[data |-> [write |-> scriptTagRemoved, code |-> Trim(chunk.code)],
       type |-> "js", action |-> "eval"]>>

\* packer.makeDecoder(): the two lines are the packer's, a function of its
\* inputs.
MakeDecoder(ins) ==
  [firstLine |-> [line |-> "firstLine", of |-> ins],
   secondLine |-> [line |-> "secondLine", of |-> ins]]

\* embedJs, after the await: `<script>\n${firstLine}\n${secondLine}\n</script>`
DecoderScript(ins) ==
  LET d == MakeDecoder(ins)
  IN <<[tag |-> "script", arg |-> "", lines |-> <<d.firstLine, d.secondLine>>]>>


NoDoc == <<Tok("none", "")>>
Ev(name, doc) == [ev |-> name, doc |-> doc]

InitTransform ==
  /\ tpc = "idle"
  /\ mode = "build"
  /\ input = <<>>
  /\ bundle0 = <<>>
  /\ html = <<>>
  /\ bundle = <<>>
  /\ bundleKeys = <<>>
  /\ inputs = <<>>
  /\ log = <<>>
  /\ result = NoDoc
  /\ error = ""

\* Variant of the start of transform that starts htmlMinify.minify before it
\* inlines the CSS.
TransformStartMinifyFirst(h, b, m, cssThrows) ==
  /\ mode' = m
  /\ input' = h
  /\ bundle0' = IF m = "build" THEN b ELSE <<>>
  /\ IF m # "build"
       THEN \* if (!ctx || !ctx.bundle) return html;
            /\ tpc' = "done"
            /\ result' = h
            /\ bundle' = bundle0'
            /\ UNCHANGED <<html, bundleKeys, inputs, log, error>>
       ELSE LET cssKey == FindCss(b)
            IN /\ bundleKeys' = b
               /\ IF cssKey = NoKey
                    THEN /\ html' = h
                         /\ bundle' = b
                         /\ log' = <<Ev("htmlMinify.call", h)>>
                         /\ tpc' = "minifying"
                         /\ UNCHANGED <<inputs, result, error>>
                  ELSE IF cssThrows
                    THEN /\ log' = <<Ev("cleancss.call", <<>>), Ev("cleancss.throw", <<>>)>>
                         /\ html' = h
                         /\ bundle' = b
                         /\ tpc' = "rejected"
                         /\ error' = "cleancss"
                         /\ UNCHANGED <<inputs, result>>
                  ELSE LET inlined == embedCss(h, Entry(cssKey))
                       IN /\ html' = inlined
                          /\ bundle' = Delete(b, cssKey)
                          /\ log' = <<Ev("htmlMinify.call", h), Ev("cleancss.call", <<>>),
                                      Ev("embedCss.return", <<>>)>>
                          /\ tpc' = "minifying"
                          /\ UNCHANGED <<inputs, result, error>>

\* The synchronous part of transform, up to `await htmlMinify.minify(...)`.
\* cssThrows says whether CleanCSS throws on this asset.
TransformStart(h, b, m, cssThrows) ==
  /\ mode' = m
  /\ input' = h
  /\ bundle0' = IF m = "build" THEN b ELSE <<>>
  /\ IF m # "build"
       THEN \* if (!ctx || !ctx.bundle) return html;
            /\ tpc' = "done"
            /\ result' = h
            /\ bundle' = bundle0'
            /\ UNCHANGED <<html, bundleKeys, inputs, log, error>>
       ELSE LET cssKey == FindCss(b)
            IN /\ bundleKeys' = b
               /\ IF cssKey = NoKey
                    THEN /\ html' = h
                         /\ bundle' = b
                         /\ log' = <<Ev("htmlMinify.call", h)>>
                         /\ tpc' = "minifying"
                         /\ UNCHANGED <<inputs, result, error>>
                  ELSE IF cssThrows
                    THEN /\ log' = <<Ev("cleancss.call", <<>>), Ev("cleancss.throw", <<>>)>>
                         /\ html' = h
                         /\ bundle' = b
                         /\ tpc' = "rejected"
                         /\ error' = "cleancss"
                         /\ UNCHANGED <<inputs, result>>
                  ELSE LET inlined == embedCss(h, Entry(cssKey))
                       IN /\ html' = inlined
                          /\ bundle' = Delete(b, cssKey)
                          /\ log' = <<Ev("cleancss.call", <<>>), Ev("embedCss.return", <<>>),
                                      Ev("htmlMinify.call", inlined)>>
                          /\ tpc' = "minifying"
                          /\ UNCHANGED <<inputs, result, error>>

\* Variant of transform that minifies the document when there is no bundle.
TransformDevMinifies ==
  /\ tpc = "idle"
  /\ \E h \in Docs, b \in Bundles, m \in {"noctx", "nobundle", "build"},
        cssThrows \in BOOLEAN :
       IF m = "build"
         THEN TransformStart(h, b, m, cssThrows)
         ELSE /\ mode' = m
              /\ input' = h
              /\ bundle0' = <<>>
              /\ bundle' = <<>>
              /\ log' = <<Ev("htmlMinify.call", h), Ev("htmlMinify.resolve", <<>>)>>
              /\ result' = HtmlMinify(h)
              /\ tpc' = "done"
              /\ UNCHANGED <<html, bundleKeys, inputs, error>>
  /\ UNCHANGED <<mvars, xvars>>

\* transform(html, ctx) is called by the build tool.
Transform ==
  /\ tpc = "idle"
  /\ \E h \in Docs, b \in Bundles, m \in {"noctx", "nobundle", "build"},
        cssThrows \in BOOLEAN :
       TransformStart(h, b, m, cssThrows)
  /\ UNCHANGED <<mvars, xvars>>

\* Variant of the continuation that drops the minifier's result
\* (`await htmlMinify.minify(...)` without the assignment to html).
MinifyResolvesDiscarded ==
  /\ tpc = "minifying"
  /\ LET jsKey == FindJs(bundleKeys)
     IN /\ html' = html
        /\ IF jsKey = NoKey
             THEN /\ log' = Append(log, Ev("htmlMinify.resolve", <<>>))
                  /\ result' = html
                  /\ tpc' = "done"
                  /\ UNCHANGED inputs
             ELSE /\ log' = log \o <<Ev("htmlMinify.resolve", <<>>), Ev("packer.optimize", <<>>)>>
                  /\ inputs' = PackerInputs(html, Entry(jsKey))
                  /\ tpc' = "optimizing"
                  /\ UNCHANGED result
  /\ UNCHANGED <<mode, input, bundle0, bundle, bundleKeys, error, mvars, xvars>>

\* htmlMinify.minify resolves; transform goes on to the JS phase, up to
\* `await packer.optimize(2)` inside embedJs, or returns.
MinifyResolves ==
  /\ tpc = "minifying"
  /\ LET minified == HtmlMinify(html)
         jsKey == FindJs(bundleKeys)
     IN /\ html' = minified
        /\ IF jsKey = NoKey
             THEN /\ log' = Append(log, Ev("htmlMinify.resolve", <<>>))
                  /\ result' = minified
                  /\ tpc' = "done"
                  /\ UNCHANGED inputs
             ELSE /\ log' = log \o <<Ev("htmlMinify.resolve", <<>>), Ev("packer.optimize", <<>>)>>
                  /\ inputs' = PackerInputs(minified, Entry(jsKey))
                  /\ tpc' = "optimizing"
                  /\ UNCHANGED result
  /\ UNCHANGED <<mode, input, bundle0, bundle, bundleKeys, error, mvars, xvars>>

\* Variant with the await wrapped in try/catch: on a rejection the document
\* is returned unminified.
MinifyRejectsCaught ==
  /\ tpc = "minifying"
  /\ log' = Append(log, Ev("htmlMinify.throw", <<>>))
  /\ tpc' = "done"
  /\ result' = html
  /\ UNCHANGED <<mode, input, bundle0, html, bundle, bundleKeys, inputs, error, mvars, xvars>>

\* htmlMinify.minify rejects: the await throws and nothing catches it.
MinifyRejects ==
  /\ tpc = "minifying"
  /\ log' = Append(log, Ev("htmlMinify.throw", <<>>))
  /\ tpc' = "rejected"
  /\ error' = "htmlMinify"
  /\ UNCHANGED <<mode, input, bundle0, html, bundle, bundleKeys, inputs, result, mvars, xvars>>

\* Variant of embedJs that calls makeDecoder without awaiting optimize.
OptimizeResolvesDecoderFirst ==
  /\ tpc = "optimizing"
  /\ log' = log \o <<Ev("packer.makeDecoder", <<>>), Ev("packer.optimized", <<>>)>>
  /\ html' = DecoderScript(inputs)
  /\ bundle' = Delete(bundle, FindJs(bundleKeys))
  /\ result' = html'
  /\ tpc' = "done"
  /\ UNCHANGED <<mode, input, bundle0, bundleKeys, inputs, error, mvars, xvars>>

\* packer.optimize(2) resolves: embedJs makes the decoder and returns the
\* script element; transform deletes the chunk from the bundle and returns.
OptimizeResolves ==
  /\ tpc = "optimizing"
  /\ log' = log \o <<Ev("packer.optimized", <<>>), Ev("packer.makeDecoder", <<>>)>>
  /\ html' = DecoderScript(inputs)
  /\ bundle' = Delete(bundle, FindJs(bundleKeys))
  /\ result' = html'
  /\ tpc' = "done"
  /\ UNCHANGED <<mode, input, bundle0, bundleKeys, inputs, error, mvars, xvars>>

\* Variant of the rejection that puts the bundle back as it was.
OptimizeRejectsRollback ==
  /\ tpc = "optimizing"
  /\ log' = Append(log, Ev("packer.throw", <<>>))
  /\ tpc' = "rejected"
  /\ error' = "packer"
  /\ bundle' = bundle0
  /\ UNCHANGED <<mode, input, bundle0, html, bundleKeys, inputs, result, mvars, xvars>>

\* packer.optimize(2) rejects: embedJs rejects, and so does transform.
OptimizeRejects ==
  /\ tpc = "optimizing"
  /\ log' = Append(log, Ev("packer.throw", <<>>))
  /\ tpc' = "rejected"
  /\ error' = "packer"
  /\ UNCHANGED <<mode, input, bundle0, html, bundle, bundleKeys, inputs, result, mvars, xvars>>

\* The merge variables while only the transform runs.
InitMergeIdle ==
  /\ heap = EmptyHeap
  /\ user = Undefined
  /\ defs = Undefined
  /\ calls = <<>>
  /\ mpc = "unused"

Init == InitTransform /\ InitMergeIdle /\ InitOthersIdle

InitMerge == InitMergeArgs /\ InitTransform /\ InitOthersIdle

\* ========================================================================
\* PART 3: the archive stage's file list (ectPlugin.closeBundle)
\* ========================================================================
FileNames == {"index.html", "about.html", "main.js", "img.png", "font.woff"}
EndsWithHtml(name) == name \in {"index.html", "about.html"}

\* glob.sync(`${outDir}/**/*`, { nodir: true }): distinct paths, in the
\* order of the directory walk.
FileLists ==
  {l \in UNION {[1..n -> FileNames] : n \in 0..MaxFiles} :
     \A i, j \in 1..Len(l) : i # j => l[i] # l[j]}

\* Variant of the comparator with the two results exchanged.
CompareHtmlLast(a, b) == IF EndsWithHtml(a) THEN 1 ELSE -1

\* (a) => (a.endsWith('.html') ? -1 : 1): the second argument is not
\* looked at.
Compare(a, b) == IF EndsWithHtml(a) THEN -1 ELSE 1

Reverse(w) == [i \in 1..Len(w) |-> w[Len(w) + 1 - i]]

\* Array.prototype.sort as the runtime of the build (Node.js, V8) does it
\* for an array of fewer than 64 elements: one run is counted (a strictly
\* descending run is reversed) and the rest is inserted by binary
\* insertion.  The comparator above is not a consistent one, so the order
\* is the one this algorithm produces.
RECURSIVE CountRun(_, _, _)
CountRun(w, idx, isDescending) ==
  IF idx > Len(w) THEN idx - 1
  ELSE LET order == Compare(w[idx], w[idx - 1])
       IN IF (isDescending /\ order >= 0) \/ (~isDescending /\ order < 0)
            THEN idx - 1
            ELSE CountRun(w, idx + 1, isDescending)

CountAndMakeRun(w) ==
  LET isDescending == Compare(w[2], w[1]) < 0
      runLength == CountRun(w, 3, isDescending)
  IN [runLength |-> runLength,
      workArray |-> IF isDescending
                      THEN Reverse(SubSeq(w, 1, runLength)) \o SubSeq(w, runLength + 1, Len(w))
                      ELSE w]

RECURSIVE BinarySearch(_, _, _, _)
BinarySearch(w, pivot, left, right) ==
  IF left < right
    THEN LET mid == left + ((right - left) \div 2)
         IN IF Compare(pivot, w[mid]) < 0
              THEN BinarySearch(w, pivot, left, mid)
              ELSE BinarySearch(w, pivot, mid + 1, right)
    ELSE left

RECURSIVE BinaryInsertionSort(_, _)
BinaryInsertionSort(w, start) ==
  IF start > Len(w) THEN w
  ELSE LET pivot == w[start]
           left == BinarySearch(w, pivot, 1, start)
       IN BinaryInsertionSort(SubSeq(w, 1, left - 1) \o <<pivot>>
                                \o SubSeq(w, left, start - 1)
                                \o SubSeq(w, start + 1, Len(w)),
                              start + 1)

\* files.sort((a) => (a.endsWith('.html') ? -1 : 1))
SortHtmlFirst(w) ==
  IF Len(w) < 2 THEN w
  ELSE LET run == CountAndMakeRun(w)
       IN BinaryInsertionSort(run.workArray, run.runLength + 1)

\* closeBundle lists the output directory and sorts the list.
ListFiles ==
  /\ spc = "idle"
  /\ \E l \in FileLists :
       /\ globbed' = l
       /\ files' = SortHtmlFirst(l)
  /\ spc' = "sorted"
  /\ UNCHANGED <<mvars, tvars, wvars, bvars, cvars, gvars, rvars>>

InitFiles == InitMergeIdle /\ InitTransform /\ InitOthersIdle

NextFiles == ListFiles

SpecFiles == InitFiles /\ [][NextFiles]_vars

\* ========================================================================
\* PART 4: readAllFiles
\* ========================================================================
\* Paths below the root: the root holds MaxEntries entries and so does its
\* first entry.
Entries1 == [i \in 1..MaxEntries |-> i]
Paths ==
  {<<>>} \cup {<<i>> : i \in 1..MaxEntries} \cup {<<1, i>> : i \in 1..MaxEntries}

\* What the file system calls do at a path: existsSync is false ("missing",
\* also for a dangling link that readdirSync listed), lstatSync throws,
\* readdirSync throws on a directory, or the path is a directory or a file.
PathStates == {"missing", "lstatThrows", "readdirThrows", "dir", "file"}
Trees == [Paths -> PathStates]

\* fs.readdirSync(root)
Readdir(root) == IF Len(root) = 0 \/ root = <<1>> THEN Entries1 ELSE <<>>

\* reg.test(root), for a file
RegTest(root) == root = <<>> \/ root[Len(root)] = 1

RECURSIVE readAllFiles(_, _, _)
RECURSIVE WalkEntries(_, _, _, _, _)
RECURSIVE ReadBody(_, _, _)

\* for (const file of files) resultArr = resultArr.concat(readAllFiles(...))
WalkEntries(fs, root, entries, reg, resultArr) ==
  IF entries = <<>> THEN [thrown |-> FALSE, arr |-> resultArr]
  ELSE LET t == readAllFiles(fs, Append(root, Head(entries)), reg)
       IN IF t.thrown
            THEN [thrown |-> TRUE, arr |-> resultArr]
            ELSE WalkEntries(fs, root, Tail(entries), reg, resultArr \o t.arr)

\* The body of the try block: thrown says that an exception left it, arr is
\* resultArr at that moment.
ReadBody(fs, root, reg) ==
  IF fs[root] = "missing" THEN [thrown |-> FALSE, arr |-> <<>>]
  ELSE IF fs[root] = "lstatThrows" THEN [thrown |-> TRUE, arr |-> <<>>]
  ELSE IF fs[root] = "readdirThrows" THEN [thrown |-> TRUE, arr |-> <<>>]
  ELSE IF fs[root] = "dir" THEN WalkEntries(fs, root, Readdir(root), reg, <<>>)
  ELSE IF reg => RegTest(root) THEN [thrown |-> FALSE, arr |-> <<root>>]
  ELSE [thrown |-> FALSE, arr |-> <<>>]

\* Variant without the try/catch.
readAllFilesNoCatch(fs, root, reg) == ReadBody(fs, root, reg)

\* readAllFiles(root, reg): try { body } catch (error) { console.log(error) }
\* return resultArr
readAllFiles(fs, root, reg) ==
  LET r == ReadBody(fs, root, reg)
  IN [thrown |-> FALSE, arr |-> r.arr]

\* readAllFiles is called on a directory tree.
CallReadAllFiles ==
  /\ wpc = "idle"
  /\ \E fs \in Trees, reg \in BOOLEAN :
       /\ tree' = fs
       /\ walkReg' = reg
       /\ walked' = readAllFiles(fs, <<>>, reg)
  /\ wpc' = "walked"
  /\ UNCHANGED <<mvars, tvars, svars, bvars, cvars, gvars, rvars>>

InitWalk == InitMergeIdle /\ InitTransform /\ InitOthersIdle

NextWalk == CallReadAllFiles

SpecWalk == InitWalk /\ [][NextWalk]_vars

\* ========================================================================
\* PART 5: the closeBundle hooks of one build
\* ========================================================================
\* js13kViteConfig: the plugin list.
Js13kPlugins(o) ==
  (IF o.imageMin THEN <<"imagemin">> ELSE <<>>)
    \o (IF o.roadroller THEN <<"roadroller">> ELSE <<>>)
    \o <<"ect">>
    \o (IF o.advzip THEN <<"advzip">> ELSE <<>>)

\* The configurations: js13kViteConfig with imageMinOptions or advzipOptions
\* false or not, and a configuration of the user's own with advzipPlugin
\* as its only plugin.
Configs ==
  {[kind |-> "js13k", imageMin |-> a, roadroller |-> TRUE, advzip |-> c] :
     a, c \in BOOLEAN}
  \cup {[kind |-> "advzipOnly", imageMin |-> FALSE, roadroller |-> FALSE, advzip |-> TRUE]}
PluginsOf(cfg) == IF cfg.kind = "js13k" THEN Js13kPlugins(cfg) ELSE <<"advzip">>
Has(ps, name) == \E i \in 1..Len(ps) : ps[i] = name

\* The two revisions of the archive plugins: "v1" is 'vite:ect' with
\* 'vite:advzip' (execFileSync), "v2" is 'js13k:ect' with 'js13k:advzip'
\* (execFileAsync).
Versions == {"v1", "v2"}

\* What happens to one image of the public directory: its copy is not in
\* the output directory ("absent"), statSync, readFileSync or writeFileSync
\* throws, imagemin.buffer rejects ("compress"), or nothing fails.
ImageConds == {"ok", "absent", "stat", "read", "compress", "write"}
ImageLists == UNION {[1..n -> ImageConds] : n \in 0..MaxImages}

\* The callback of files.map up to `await processFile(...)`.  The
\* mtimeCache of a new plugin instance is empty, so the mtime test lets the
\* file through.
CallbackStart(cond) ==
  IF cond = "absent" THEN "skipped"
  ELSE IF cond \in {"stat", "read"} THEN "failed"
  ELSE "compressing"

\* The callback after the await: processFile returned undefined (it caught
\* the error of imagemin.buffer) or the content, which is written.
CallbackResume(cond) ==
  IF cond = "compress" THEN "unprocessed"
  ELSE IF cond = "write" THEN "failed"
  ELSE "written"

Pending(sts) == Cardinality({i \in 1..Len(sts) : sts[i] = "compressing"})

\* await Promise.all(handles)
PromiseAll(sts) ==
  IF \E i \in 1..Len(sts) : sts[i] = "failed" THEN "rejected"
  ELSE IF \E i \in 1..Len(sts) : sts[i] = "compressing" THEN "pending"
  ELSE "resolved"

\* An entry of the record of what the hooks did: what, how many image
\* compressions were pending then, and the index.zip of that moment.
Did(ev, pend, z) == [ev |-> ev, pendingImg |-> pend, zip |-> z]

\* ectPlugin.closeBundle up to its first await (v2) or to its end (v1).
RunEct(v, z, pend, ok) ==
  IF v = "v1"
    THEN IF ok
           THEN [hook |-> "resolved", err |-> "", zip |-> "built",
                 evs |-> <<Did("ect.exec", pend, z), Did("ect.stats", pend, "built"),
                           Did("ect.resolved", pend, "built")>>]
           ELSE [hook |-> "resolved", err |-> "", zip |-> z,
                 evs |-> <<Did("ect.exec", pend, z), Did("ect.failed", pend, z),
                           Did("ect.logged", pend, z), Did("ect.resolved", pend, z)>>]
    ELSE [hook |-> "pending", err |-> "", zip |-> z,
          evs |-> <<Did("ect.exec", pend, z)>>]

\* advzipPlugin.closeBundle up to its first await (v2) or to its end (v1).
\* advzip cannot recompress a file that is not there.
RunAdvzip(v, z, pend, ok) ==
  IF v = "v1"
    THEN IF ok /\ z # "none"
           THEN [hook |-> "resolved", err |-> "", zip |-> "optimized",
                 evs |-> <<Did("advzip.begin", pend, z), Did("advzip.exec", pend, z),
                           Did("advzip.stats", pend, "optimized"),
                           Did("advzip.resolved", pend, "optimized")>>]
           ELSE [hook |-> "resolved", err |-> "", zip |-> z,
                 evs |-> <<Did("advzip.begin", pend, z), Did("advzip.exec", pend, z),
                           Did("advzip.failed", pend, z), Did("advzip.logged", pend, z),
                           Did("advzip.resolved", pend, z)>>]
    ELSE IF z = "none"
           THEN [hook |-> "rejected",
                 err |-> "advzip requires ECT plugin to run first - no index.zip found",
                 zip |-> z,
                 evs |-> <<Did("advzip.begin", pend, z), Did("advzip.rejected", pend, z)>>]
           ELSE [hook |-> "pending", err |-> "", zip |-> z,
                 evs |-> <<Did("advzip.begin", pend, z), Did("advzip.exec", pend, z)>>]

\* Variant of the host that takes no notice of `sequential: true`.
IsSequentialIgnored(v, name) == FALSE

\* closeBundle: { order: 'post', sequential: true, handler } of 'js13k:advzip'
IsSequential(v, name) == v = "v2" /\ name = "advzip"

Settled(h, name) == h[name] \in {"none", "resolved"}

\* hookParallel: a sequential hook runs when the hooks before it have
\* resolved; the others run as they are met.
StartAdvzip(v, hImg, hEct, z, pend, ok) ==
  IF IsSequential(v, "advzip") /\ ~(hImg \in {"none", "resolved"} /\ hEct \in {"none", "resolved"})
    THEN [hook |-> "waiting", err |-> "", zip |-> z, evs |-> <<>>]
    ELSE RunAdvzip(v, z, pend, ok)

\* The promise of hookParallel: it rejects with the first hook that
\* rejects and resolves when every hook has resolved.
Outcome(h) ==
  IF \E p \in HookNames : h[p] = "rejected" THEN "rejected"
  ELSE IF \E p \in HookNames : h[p] \in {"pending", "waiting"} THEN "running"
  ELSE "resolved"

NoHook(z) == [hook |-> "none", err |-> "", zip |-> z, evs |-> <<>>]

\* The build tool calls hookParallel('closeBundle'): the hooks that are not
\* sequential start in plugin order, each running up to its first await.
\* stale says that an index.zip of an earlier build is in the output
\* directory; ectOk and advOk say how the tools end when they are run with
\* execFileSync.
CloseBundleStart(v, cfg, conds, stale, ectOk, advOk) ==
  LET ps == PluginsOf(cfg)
      z0 == IF stale THEN "stale" ELSE "none"
      sts == [i \in 1..Len(conds) |-> CallbackStart(conds[i])]
      hImg == IF Has(ps, "imagemin") THEN PromiseAll(sts) ELSE "none"
      pend == Pending(sts)
      imgEvs == IF hImg = "rejected" THEN <<Did("imagemin.rejected", pend, z0)>>
                ELSE IF hImg = "resolved" THEN <<Did("imagemin.resolved", pend, z0)>>
                ELSE <<>>
      e == IF Has(ps, "ect") THEN RunEct(v, z0, pend, ectOk) ELSE NoHook(z0)
      a == IF Has(ps, "advzip")
             THEN StartAdvzip(v, hImg, e.hook, e.zip, pend, advOk)
             ELSE NoHook(e.zip)
      h == [p \in HookNames |->
              IF p = "imagemin" THEN hImg ELSE IF p = "ect" THEN e.hook ELSE a.hook]
  IN /\ Has(ps, "imagemin") \/ conds = <<>>
     /\ version' = v
     /\ config' = cfg
     /\ plugins' = ps
     /\ imgCond' = conds
     /\ imgSt' = sts
     /\ hook' = h
     /\ herror' = [p \in HookNames |->
                     IF p = "imagemin" /\ hImg = "rejected" THEN "file system error"
                     ELSE IF p = "advzip" THEN a.err ELSE ""]
     /\ zip' = a.zip
     /\ blog' = imgEvs \o e.evs \o a.evs
     /\ bpc' = Outcome(h)
     /\ UNCHANGED mtimeCache

CloseBundle ==
  /\ bpc = "idle"
  /\ \E v \in Versions, cfg \in Configs, conds \in ImageLists,
        stale \in BOOLEAN, ectOk \in BOOLEAN, advOk \in BOOLEAN :
       CloseBundleStart(v, cfg, conds, stale, ectOk, advOk)
  /\ UNCHANGED <<mvars, tvars, svars, wvars, cvars, gvars, rvars>>

\* The sequential hook starts when the last hook before it has resolved.
AdvanceAdvzip(h, z, pend) ==
  IF h["advzip"] = "waiting" /\ Settled(h, "imagemin") /\ Settled(h, "ect")
    THEN RunAdvzip(version, z, pend, TRUE)
    ELSE [hook |-> h["advzip"], err |-> herror["advzip"], zip |-> z, evs |-> <<>>]

\* imagemin.buffer settles for image i and the callback runs to its end.
CompressSettles(i) ==
  /\ i <= Len(imgSt)
  /\ imgSt[i] = "compressing"
  /\ LET sts == [imgSt EXCEPT ![i] = CallbackResume(imgCond[i])]
         pend == Pending(sts)
         hImg == IF hook["imagemin"] = "pending" THEN PromiseAll(sts) ELSE hook["imagemin"]
         imgEvs == <<Did("imagemin." \o sts[i], pend, zip)>>
                     \o (IF hook["imagemin"] = "pending" /\ hImg # "pending"
                           THEN <<Did("imagemin." \o hImg, pend, zip)>> ELSE <<>>)
         h1 == [hook EXCEPT !["imagemin"] = hImg]
         a == AdvanceAdvzip(h1, zip, pend)
         h == [h1 EXCEPT !["advzip"] = a.hook]
     IN /\ imgSt' = sts
        /\ mtimeCache' = IF sts[i] = "written" THEN mtimeCache \cup {i} ELSE mtimeCache
        /\ hook' = h
        /\ herror' = [herror EXCEPT
                        !["imagemin"] = IF hImg = "rejected" THEN "file system error" ELSE @,
                        !["advzip"] = a.err]
        /\ zip' = a.zip
        /\ blog' = blog \o imgEvs \o a.evs
        /\ bpc' = Outcome(h)
  /\ UNCHANGED <<version, config, plugins, imgCond>>
  /\ UNCHANGED <<mvars, tvars, svars, wvars, cvars, gvars, rvars>>

\* execFileAsync(ect, args) settles and ectPlugin.closeBundle runs to its
\* end.
EctSettles(ok) ==
  /\ hook["ect"] = "pending"
  /\ LET pend == Pending(imgSt)
         z == IF ok THEN "built" ELSE zip
         evs == IF ok THEN <<Did("ect.stats", pend, z), Did("ect.resolved", pend, z)>>
                ELSE <<Did("ect.failed", pend, z), Did("ect.rejected", pend, z)>>
         h1 == [hook EXCEPT !["ect"] = IF ok THEN "resolved" ELSE "rejected"]
         a == AdvanceAdvzip(h1, z, pend)
         h == [h1 EXCEPT !["advzip"] = a.hook]
     IN /\ hook' = h
        /\ herror' = [herror EXCEPT
                        !["ect"] = IF ok THEN @ ELSE "ECT compression failed: diagnostic",
                        !["advzip"] = a.err]
        /\ zip' = a.zip
        /\ blog' = blog \o evs \o a.evs
        /\ bpc' = Outcome(h)
  /\ UNCHANGED <<version, config, plugins, imgCond, imgSt, mtimeCache>>
  /\ UNCHANGED <<mvars, tvars, svars, wvars, cvars, gvars, rvars>>

\* execFileAsync(advzip, args) settles and advzipPlugin.closeBundle runs
\* to its end.
AdvzipSettles(ok) ==
  /\ hook["advzip"] = "pending"
  /\ LET pend == Pending(imgSt)
         z == IF ok THEN "optimized" ELSE zip
         h == [hook EXCEPT !["advzip"] = IF ok THEN "resolved" ELSE "rejected"]
     IN /\ hook' = h
        /\ herror' = [herror EXCEPT
                        !["advzip"] = IF ok THEN @ ELSE "advzip compression failed: diagnostic"]
        /\ zip' = z
        /\ blog' = blog \o (IF ok THEN <<Did("advzip.stats", pend, z), Did("advzip.resolved", pend, z)>>
                             ELSE <<Did("advzip.failed", pend, z), Did("advzip.rejected", pend, z)>>)
        /\ bpc' = Outcome(h)
  /\ UNCHANGED <<version, config, plugins, imgCond, imgSt, mtimeCache>>
  /\ UNCHANGED <<mvars, tvars, svars, wvars, cvars, gvars, rvars>>

InitBuild == InitMergeIdle /\ InitTransform /\ InitOthersIdle

NextBuild ==
  \/ CloseBundle
  \/ \E i \in 1..MaxImages : CompressSettles(i)
  \/ \E ok \in BOOLEAN : EctSettles(ok)
  \/ \E ok \in BOOLEAN : AdvzipSettles(ok)

SpecBuild == InitBuild /\ [][NextBuild]_vars

\* ========================================================================
\* PART 6: the temporary files of the closure compiler plugin
\* ========================================================================
\* The chunk code of invocation i is i; what the compiler makes of code c.
Compiled(c) == c + MaxInvocations

\* The millisecond clock advances.
Tick ==
  /\ now < MaxClock
  /\ now' = now + 1
  /\ UNCHANGED <<preserveOutput, inv, disk>>
  /\ UNCHANGED <<mvars, tvars, svars, wvars, bvars, gvars, rvars>>

\* renderChunk(code, chunk, options) for a .js chunk: googleClosureImpl up
\* to `await getNativeImagePath()`.  The input file is written under the
\* name made from Date.now().
RenderChunk(i) ==
  /\ inv[i].st = "idle"
  /\ inv' = [inv EXCEPT ![i] = [@ EXCEPT !.st = "awaiting", !.ts = now]]
  /\ disk' = [disk EXCEPT ![now].input = i]
  /\ UNCHANGED <<now, preserveOutput>>
  /\ UNCHANGED <<mvars, tvars, svars, wvars, bvars, gvars, rvars>>

\* getNativeImagePath() resolves and closureCompiler.run starts the
\* compiler process.
CompilerStarts(i) ==
  /\ inv[i].st = "awaiting"
  /\ inv' = [inv EXCEPT ![i].st = "running"]
  /\ UNCHANGED <<now, preserveOutput, disk>>
  /\ UNCHANGED <<mvars, tvars, svars, wvars, bvars, gvars, rvars>>

\* The compiler process reads the file named by its js flag.
CompilerReads(i) ==
  /\ inv[i].st = "running"
  /\ inv' = [inv EXCEPT ![i] = [@ EXCEPT !.st = "compiling", !.read = disk[inv[i].ts].input]]
  /\ UNCHANGED <<now, preserveOutput, disk>>
  /\ UNCHANGED <<mvars, tvars, svars, wvars, bvars, gvars, rvars>>

\* The compiler process exits and the callback of run is called.  With
\* exit code 0 the output file was written; the callback reads it and,
\* unless preserveOutput is set, unlinks both files (unlinkSync throws on a
\* file that is gone).  Otherwise the promise is rejected.
CompilerExits(i, ok) ==
  /\ inv[i].st = "compiling"
  /\ LET t == inv[i].ts
         exit0 == ok /\ inv[i].read # NoFile
         written == [disk EXCEPT ![t].output = Compiled(inv[i].read)]
     IN IF ~exit0
          THEN /\ inv' = [inv EXCEPT ![i].st = "rejected"]
               /\ UNCHANGED disk
        ELSE IF preserveOutput
          THEN /\ inv' = [inv EXCEPT ![i] = [@ EXCEPT !.st = "resolved",
                                                       !.result = written[t].output]]
               /\ disk' = written
        ELSE IF written[t].input = NoFile
          THEN /\ inv' = [inv EXCEPT ![i].st = "threw"]
               /\ disk' = written
        ELSE /\ inv' = [inv EXCEPT ![i] = [@ EXCEPT !.st = "resolved",
                                                     !.result = written[t].output]]
             /\ disk' = [disk EXCEPT ![t] = [input |-> NoFile, output |-> NoFile]]
  /\ UNCHANGED <<now, preserveOutput>>
  /\ UNCHANGED <<mvars, tvars, svars, wvars, bvars, gvars, rvars>>

\* preserveOutput is an option of the plugin.
InitClosure ==
  /\ InitMergeIdle /\ InitTransform /\ InitSortIdle /\ InitWalkIdle /\ InitBuildIdle
  /\ InitConfigIdle /\ InitRebuildIdle
  /\ now = 0
  /\ preserveOutput \in BOOLEAN
  /\ inv = [i \in 1..MaxInvocations |-> IdleInvocation]
  /\ disk = [t \in 0..MaxClock |-> [input |-> NoFile, output |-> NoFile]]

NextClosure ==
  \/ Tick
  \/ \E i \in 1..MaxInvocations : RenderChunk(i)
  \/ \E i \in 1..MaxInvocations : CompilerStarts(i)
  \/ \E i \in 1..MaxInvocations : CompilerReads(i)
  \/ \E i \in 1..MaxInvocations, ok \in BOOLEAN : CompilerExits(i, ok)

SpecClosure == InitClosure /\ [][NextClosure]_vars

\* ========================================================================
\* PART 7: js13kViteConfig and the options of imageminPlugin
\* ========================================================================
\* An options object as a value: key -> value.
O(f) == [t |-> "obj", v |-> f]
True == P("true")
IsUndefined(x) == x.t = "prim" /\ x.v = "undefined"
IsFalse(x) == x.t = "prim" /\ x.v = "false"
IsObj(x) == x.t = "obj"
\* a[k]: undefined for a key the object does not have.
Prop(a, k) == IF k \in DOMAIN a.v THEN a.v[k] ELSE Undefined

\* Variant of the merge in which the defaults win over the user's values.
RECURSIVE MergeValuesDefaultsWin(_, _)
MergeValuesDefaultsWin(a, b) ==
  IF ~IsObj(a) THEN b
  ELSE O([k \in (DOMAIN a.v) \cup (DOMAIN b.v) |->
            IF k \in DOMAIN b.v THEN b.v[k] ELSE a.v[k]])

\* addDefaultValues(a, b) on option values: the merged object, which is
\* b when a is falsy and the (mutated) a otherwise.
RECURSIVE MergeValues(_, _)
MergeValues(a, b) ==
  IF ~IsObj(a) THEN b
  ELSE O([k \in (DOMAIN a.v) \cup (DOMAIN b.v) |->
            IF k \notin DOMAIN b.v THEN a.v[k]
            ELSE IF IsUndefined(Prop(a, k)) THEN b.v[k]
            ELSE IF IsObj(b.v[k]) /\ IsObj(a.v[k]) THEN MergeValues(a.v[k], b.v[k])
            ELSE a.v[k]])

\* The caller's options object after addDefaultValues(options, defaults):
\* an object was mutated into the merged object, anything else is as it
\* was.
AfterMerge(a, b) == IF IsObj(a) THEN MergeValues(a, b) ELSE a

defaultTerserOptions ==
  O([module |-> True, toplevel |-> True, compress |-> O([passes |-> P("1000000")])])
defaultRollupOptions ==
  O([output |-> O([inlineDynamicImports |-> True, manualChunks |-> Undefined])])
defaultViteBuildOptions ==
  O([target |-> P("esnext"), minify |-> P("terser"), assetsDir |-> P(""),
     cssCodeSplit |-> False, modulePreload |-> O([polyfill |-> False]),
     terserOptions |-> defaultTerserOptions, rollupOptions |-> defaultRollupOptions])

\* Variant of the object literal with the spread last, so that the keys of
\* viteOptions win.
SpreadBuildViteWins(viteOptions, t, r) ==
  LET own == IF IsObj(viteOptions) THEN DOMAIN viteOptions.v ELSE {}
  IN O([k \in own \cup {"terserOptions", "rollupOptions"} |->
          IF k \in own THEN viteOptions.v[k]
          ELSE IF k = "terserOptions" THEN t ELSE r])

\* { ...viteOptions, terserOptions: t, rollupOptions: r }
SpreadBuild(viteOptions, t, r) ==
  LET own == IF IsObj(viteOptions) THEN DOMAIN viteOptions.v ELSE {}
  IN O([k \in own \cup {"terserOptions", "rollupOptions"} |->
          IF k = "terserOptions" THEN t
          ELSE IF k = "rollupOptions" THEN r
          ELSE viteOptions.v[k]])

\* The plugin list of the js13kViteConfig with imagemin (src/index.ts
\* 460-488): options that are false leave the plugin out, except for ECT.
PluginsImagemin(o) ==
  Js13kPlugins([imageMin |-> ~IsFalse(o.imageMinOptions),
                roadroller |-> ~IsFalse(o.roadrollerOptions),
                advzip |-> ~IsFalse(o.advzipOptions)])

\* The plugin list of the js13kViteConfig with the closure compiler
\* (src/index.ts 621-638): an array literal of the four plugins.
PluginsClosure(o) == <<"closure", "roadroller", "ect", "advzip">>

\* Values a user passes as the options of a plugin.
PluginOptionInputs == {Undefined, False, O([level |-> P("9")])}
\* Values a user passes as viteOptions, terserOptions and rollupOptions.
UserTerser == O([module |-> False, compress |-> O([unsafe |-> True])])
UserRollup == O([output |-> O([inlineDynamicImports |-> False])])
ViteOptionInputs ==
  {Undefined,
   O([target |-> P("es2015")]),
   O([minify |-> False, terserOptions |-> UserTerser]),
   O([rollupOptions |-> UserRollup, modulePreload |-> O([polyfill |-> True])]),
   O([assetsDir |-> P("assets"), terserOptions |-> UserTerser, rollupOptions |-> UserRollup])}
Js13kOptionInputs ==
  [first : PluginOptionInputs, roadrollerOptions : PluginOptionInputs,
   ectOptions : {Undefined}, advzipOptions : PluginOptionInputs,
   viteOptions : ViteOptionInputs,
   terserOptions : {Undefined, UserTerser}, rollupOptions : {Undefined, UserRollup}]

\* js13kViteConfig(options).  o.first is imageMinOptions in one variant and
\* closureOptions in the other.
js13kViteConfig(variant, o) ==
  [build |-> MergeValues(SpreadBuild(o.viteOptions, o.terserOptions, o.rollupOptions),
                         defaultViteBuildOptions),
   plugins |-> IF variant = "imagemin"
                 THEN PluginsImagemin([imageMinOptions |-> o.first,
                                       roadrollerOptions |-> o.roadrollerOptions,
                                       advzipOptions |-> o.advzipOptions])
                 ELSE PluginsClosure(o)]

CallJs13kViteConfig ==
  /\ gpc = "idle"
  /\ \E variant \in {"imagemin", "closure"}, o \in Js13kOptionInputs :
       /\ jsVariant' = variant
       /\ jsOptions' = o
       /\ jsConfig' = js13kViteConfig(variant, o)
  /\ gpc' = "configured"
  /\ UNCHANGED <<imPassed, imOptions, imMerged, imPlugins>>
  /\ UNCHANGED <<mvars, tvars, svars, wvars, bvars, cvars, rvars>>

defaultImageminOptions ==
  O([verbose |-> True,
     gifsicle |-> O([optimizationLevel |-> P("7"), interlaced |-> False]),
     optipng |-> O([optimizationLevel |-> P("7")]),
     mozjpeg |-> O([quality |-> P("20")]),
     pngquant |-> O([quality |-> P("[0, 1]"), speed |-> P("1")]),
     svgo |-> O([plugins |-> P("[removeViewBox, removeEmptyAttrs]")])])

\* The compressors in the order getImageminPlugins looks at them, and the
\* defaults of its destructuring.
Compressors == <<"gifsicle", "mozjpeg", "pngquant", "optipng", "svgo", "webp", "jpegTran">>
DestructuringDefault(name) ==
  IF name \in {"gifsicle", "optipng", "svgo", "jpegTran"} THEN True ELSE False

isBoolean(arg) == arg.t = "prim" /\ arg.v \in {"true", "false"}
isNotFalse(arg) == ~(isBoolean(arg) /\ arg.v = "false")

\* getImageminPlugins(options = {}): for every compressor that is not
\* false, the imagemin plugin made with its options (undefined for true).
RECURSIVE PluginsFrom(_, _)
PluginsFrom(options, names) ==
  IF names = <<>> THEN <<>>
  ELSE LET name == Head(names)
           own == IF IsObj(options) THEN Prop(options, name) ELSE Undefined
           value == IF IsUndefined(own) THEN DestructuringDefault(name) ELSE own
           opt == IF isBoolean(value) THEN Undefined ELSE value
       IN (IF isNotFalse(value) THEN <<[name |-> name, opt |-> opt]>> ELSE <<>>)
            \o PluginsFrom(options, Tail(names))
getImageminPlugins(options) == PluginsFrom(options, Compressors)

\* Values a user passes as the options of imageminPlugin.
ImageminOptionInputs ==
  {Undefined,
   O(<<>>),
   O([mozjpeg |-> False]),
   O([gifsicle |-> False, webp |-> True]),
   O([optipng |-> O([optimizationLevel |-> P("3")])])}

\* imageminPlugin(options): imageminOptions is the merge, and processFile
\* calls getImageminPlugins(options) with the options variable.
CallImageminPlugin ==
  /\ gpc \in {"idle", "imagemin"}
  /\ Len(imPassed) < 2
  /\ \E options \in ImageminOptionInputs :
       /\ imPassed' = Append(imPassed, options)
       /\ imMerged' = Append(imMerged, MergeValues(options, defaultImageminOptions))
       /\ imOptions' = Append(imOptions, AfterMerge(options, defaultImageminOptions))
       /\ imPlugins' = Append(imPlugins,
                              getImageminPlugins(AfterMerge(options, defaultImageminOptions)))
  /\ gpc' = "imagemin"
  /\ UNCHANGED <<jsVariant, jsOptions, jsConfig>>
  /\ UNCHANGED <<mvars, tvars, svars, wvars, bvars, cvars, rvars>>

InitConfig == InitMergeIdle /\ InitTransform /\ InitOthersIdle

NextConfig == CallJs13kViteConfig \/ CallImageminPlugin

SpecConfig == InitConfig /\ [][NextConfig]_vars

\* ========================================================================
\* PART 8 - imageminPlugin.closeBundle over successive builds: mtimeCache
\* ========================================================================

\* Date.now(): the time in whole milliseconds.
DateNow(t) == (t \div TicksPerMs) * TicksPerMs

\* mtimeCache.get(filePath) || 0
CacheGet(c, f) == IF f \in DOMAIN c THEN c[f] ELSE 0

\* mtimeCache.set(filePath, value)
CacheSet(c, f, value) == [k \in DOMAIN c \cup {f} |-> IF k = f THEN value ELSE c[k]]

\* Variant of the test that lets through a file as old as its cache entry.
NotNewerStrict(mtime, cached) == mtime < cached

\* mtimeMs <= (mtimeCache.get(filePath) || 0)
NotNewer(mtime, cached) == mtime <= cached

ReadEv(f, run, mtime) ==
  [ev |-> "read", file |-> f, run |-> run, mtime |-> mtime, stamp |-> 0]
WrittenEv(f, run, mtime, stamp) ==
  [ev |-> "written", file |-> f, run |-> run, mtime |-> mtime, stamp |-> stamp]
FailedEv(f, run) ==
  [ev |-> "failed", file |-> f, run |-> run, mtime |-> 0, stamp |-> 0]

\* The callback of files.map for one public image, up to
\* `await processFile(filePath, buffer)`.
HandleStart(f) ==
  IF f \notin outFiles THEN "returned"
  ELSE IF NotNewer(mtimeMs[f], CacheGet(cachedMs, f)) THEN "returned"
  ELSE "compressing"

\* The files read by the callbacks, in the order of files.map.
RECURSIVE ReadEvents(_, _)
ReadEvents(i, run) ==
  IF i > Len(PublicFiles) THEN <<>>
  ELSE LET f == PublicFiles[i]
       IN (IF HandleStart(f) = "compressing" THEN <<ReadEv(f, run, mtimeMs[f])>> ELSE <<>>)
            \o ReadEvents(i + 1, run)

\* The clock advances.
ClockTick ==
  /\ clock < MaxTime
  /\ clock' = clock + 1
  /\ UNCHANGED <<rpc, outFiles, mtimeMs, cachedMs, handles, runs, rlog>>
  /\ UNCHANGED <<mvars, tvars, svars, wvars, bvars, cvars, gvars>>

\* Between two closeBundle runs the build writes the output directory
\* again: the images in `present` are there afterwards, those in `touched`
\* freshly copied from the public directory.
BuildWrites(present, touched) ==
  /\ rpc = "idle"
  /\ runs < MaxRuns
  /\ touched \subseteq present
  /\ (present \ outFiles) \subseteq touched
  /\ outFiles' = present
  /\ mtimeMs' = [i \in PublicImages |-> IF i \in touched THEN clock ELSE mtimeMs[i]]
  /\ UNCHANGED <<rpc, clock, cachedMs, handles, runs, rlog>>
  /\ UNCHANGED <<mvars, tvars, svars, wvars, bvars, cvars, gvars>>

\* closeBundle of 'vite:imagemin' is called: every callback of files.map
\* runs to its return or to its await.
CloseBundleImages ==
  /\ rpc = "idle"
  /\ runs < MaxRuns
  /\ runs' = runs + 1
  /\ handles' = [f \in PublicImages |-> HandleStart(f)]
  /\ rlog' = rlog \o ReadEvents(1, runs + 1)
  /\ rpc' = IF \E f \in PublicImages : HandleStart(f) = "compressing"
              THEN "running" ELSE "idle"
  /\ UNCHANGED <<clock, outFiles, mtimeMs, cachedMs>>
  /\ UNCHANGED <<mvars, tvars, svars, wvars, bvars, cvars, gvars>>

\* processFile settles for image f: with a content the file is written and
\* the cache entry set; imagemin.buffer failing gives undefined and the
\* callback returns.
BufferSettles(f, ok) ==
  /\ rpc = "running"
  /\ handles[f] = "compressing"
  /\ IF ok
       THEN /\ outFiles' = outFiles \cup {f}
            /\ mtimeMs' = [mtimeMs EXCEPT ![f] = clock]
            /\ cachedMs' = CacheSet(cachedMs, f, DateNow(clock))
            /\ handles' = [handles EXCEPT ![f] = "written"]
            /\ rlog' = Append(rlog, WrittenEv(f, runs, clock, DateNow(clock)))
       ELSE /\ handles' = [handles EXCEPT ![f] = "failed"]
            /\ rlog' = Append(rlog, FailedEv(f, runs))
            /\ UNCHANGED <<outFiles, mtimeMs, cachedMs>>
  /\ rpc' = IF \E g \in PublicImages : handles'[g] = "compressing"
              THEN "running" ELSE "idle"
  /\ UNCHANGED <<clock, runs>>
  /\ UNCHANGED <<mvars, tvars, svars, wvars, bvars, cvars, gvars>>

InitRebuild ==
  InitMergeIdle /\ InitTransform /\ InitOthersIdle

NextRebuild ==
  \/ ClockTick
  \/ \E present \in SUBSET PublicImages, touched \in SUBSET PublicImages :
       BuildWrites(present, touched)
  \/ CloseBundleImages
  \/ \E f \in PublicImages, ok \in BOOLEAN : BufferSettles(f, ok)

SpecRebuild == InitRebuild /\ [][NextRebuild]_vars

NextMerge == CallMerge \/ CallMergeAgain

SpecMerge == InitMerge /\ [][NextMerge]_vars

NextMergeTwice == CallMerge \/ CallMergeOther

SpecMergeTwice == InitMerge /\ [][NextMergeTwice]_vars

Next ==
  \/ Transform
  \/ MinifyResolves
  \/ MinifyRejects
  \/ OptimizeResolves
  \/ OptimizeRejects

Spec == Init /\ [][Next]_vars

\* ------------------------------------------------------------------------
\* Properties of the roadroller HTML transform
\* ------------------------------------------------------------------------
Events(name) == {i \in 1..Len(log) : log[i].ev = name}
HasTag(doc, tag) == \E i \in 1..Len(doc) : doc[i].tag = tag
CssKey0 == FindCss(bundle0)
JsKey0 == FindJs(bundle0)
Started == tpc # "idle" /\ mode = "build"

\* C1: in a build-mode run the phases happen in the order CSS inlining,
\* HTML minification, JS decoder injection: the minifier is not called
\* before embedCss has returned, the packer is not called before the
\* minifier has resolved, and the minifier never gets a document that
\* holds the decoder script.
C1_PhaseOrder ==
  Started =>
    /\ \A i \in Events("htmlMinify.call") :
         /\ CssKey0 # NoKey => \E j \in Events("embedCss.return") : j < i
         /\ \A j \in Events("cleancss.call") : j < i
         /\ ~HasTag(log[i].doc, "script")
    /\ \A i \in Events("packer.optimize") \cup Events("packer.makeDecoder") :
         \E j \in Events("htmlMinify.resolve") : j < i
    /\ tpc \in {"minifying", "optimizing", "done"} => Events("htmlMinify.call") # {}

\* A finished run on a bundle with a CSS asset and a JS chunk.
C1_Witness ==
  /\ Started /\ tpc = "done"
  /\ CssKey0 # NoKey /\ JsKey0 # NoKey
  /\ Events("embedCss.return") # {}
  /\ Events("packer.makeDecoder") # {}

\* The document after phases 1 and 2, with the chunk's script tag deleted.
InlinedInput == IF CssKey0 = NoKey THEN input ELSE embedCss(input, Entry(CssKey0))
MinifiedInput == HtmlMinify(InlinedInput)
RemainingHtml ==
  ReplaceFirst(MinifiedInput,
               {i \in 1..Len(MinifiedInput) : ScriptMatches(MinifiedInput[i], JsKey0)}, <<>>)
JsRunDone == Started /\ tpc = "done" /\ JsKey0 # NoKey

\* C2 as claimed: when a JS chunk is matched the returned document is the
\* minified HTML with the chunk's script tag deleted, followed by one fresh
\* <script> element with the packer's two lines.
C2_ReturnsHtmlThenDecoder ==
  JsRunDone => result = RemainingHtml \o DecoderScript(inputs)

\* C2 as amended: when a JS chunk is matched the returned document is
\* exactly one <script> element holding the packer's firstLine and
\* secondLine; the minified HTML with the chunk's script tag deleted (with
\* the inlined <style>) is the argument of document.write in the packer's
\* input, not part of the returned document.
C2_ReturnsDecoderOnly ==
  JsRunDone =>
    /\ Len(inputs) = 1
    /\ inputs[1].data.write = RemainingHtml
    /\ ~HasTag(inputs[1].data.write, "ws")
    /\ Len(result) = 1
    /\ result[1].tag = "script"
    /\ result[1].lines = <<MakeDecoder(inputs).firstLine, MakeDecoder(inputs).secondLine>>

\* Scenario A: a link to the CSS asset and the script tag of the chunk are
\* in the document, and the run has finished.
C2_Witness ==
  /\ JsRunDone
  /\ CssKey0 = "style.css" /\ JsKey0 = "main.js"
  /\ HasTag(input, "link") /\ HasTag(input, "scriptsrc") /\ HasTag(input, "ws")
  /\ HasTag(inputs[1].data.write, "style")
  /\ ~HasTag(inputs[1].data.write, "scriptsrc")

\* C3: after a successful build-mode transform the bundle holds neither the
\* matched CSS key nor the matched JS key, and every other entry, further
\* .css and .js keys included, is still there, in the same order.
C3_OnlyMatchedKeysRemoved ==
  (Started /\ tpc = "done") =>
    bundle = SelectSeq(bundle0, LAMBDA k : k # CssKey0 /\ k # JsKey0)

\* A finished run on a bundle with two .css keys and a chunk, or two .js
\* keys and a CSS asset.
C3_Witness ==
  /\ Started /\ tpc = "done"
  /\ Len(bundle0) = 3 /\ Len(bundle) = 1
  /\ EndsWithCss(bundle[1]) \/ EndsWithJs(bundle[1])

NoAssets == CssKey0 = NoKey /\ JsKey0 = NoKey

\* C4: with no .css and no .js key in the bundle the output is the
\* minified input, the bundle is unchanged, and neither the CSS minifier nor
\* the packer is called.
C4_NoAssetsOnlyMinifies ==
  (Started /\ NoAssets) =>
    /\ bundle = bundle0
    /\ \A i \in 1..Len(log) :
         log[i].ev \in {"htmlMinify.call", "htmlMinify.resolve", "htmlMinify.throw"}
    /\ tpc \in {"minifying", "done", "rejected"}
    /\ tpc = "done" => result = HtmlMinify(input)
    /\ tpc = "rejected" => error = "htmlMinify"

\* A finished run on a bundle with one entry that is neither CSS nor JS, on
\* a document with whitespace and tags that refer to assets.
C4_Witness ==
  /\ Started /\ NoAssets /\ tpc = "done"
  /\ bundle0 = <<"img.png">>
  /\ HasTag(input, "ws") /\ HasTag(input, "link")
  /\ result # input

Throws == Events("cleancss.throw") \cup Events("htmlMinify.throw") \cup Events("packer.throw")

\* C5: when the CSS minifier, the HTML minifier or the packer throws, the
\* transform rejects with that tool's error and returns no document.
C5_ToolFailureRejects ==
  /\ Throws # {} =>
       /\ tpc = "rejected"
       /\ result = NoDoc
       /\ \A i \in Throws : i = Len(log)
       /\ log[Len(log)].ev =
            (IF error = "cleancss" THEN "cleancss.throw"
             ELSE IF error = "htmlMinify" THEN "htmlMinify.throw"
             ELSE IF error = "packer" THEN "packer.throw" ELSE "none")
  /\ tpc = "rejected" => Throws # {}
  /\ tpc = "done" => error = ""

\* Each of the three tools has failed in some run; the packer after the CSS
\* was inlined and the document minified.
C5_Witness ==
  /\ tpc = "rejected" /\ error = "packer"
  /\ Events("embedCss.return") # {} /\ Events("htmlMinify.resolve") # {}
  /\ html # input

\* ------------------------------------------------------------------------
\* Properties of addDefaultValues
\* ------------------------------------------------------------------------
FirstCall == calls[1]
UserIsObject == user.t = "ref"

\* Every property that value v0 (in heap h0) defines, at any depth, has the
\* same value in v1 (in heap h1): primitives are equal, objects are the same
\* object and again keep every property they defined.
RECURSIVE Keeps(_, _, _, _)
Keeps(h0, v0, h1, v1) ==
  /\ v1 = v0
  /\ v0.t = "ref" =>
       \A k \in AllKeys :
         h0[v0.v].props[k] \notin {Absent, Undefined} =>
           Keeps(h0, h0[v0.v].props[k], h1, h1[v0.v].props[k])

\* C6: addDefaultValues never overwrites a user value: every property that
\* is present and not undefined in the user object, at any nesting depth,
\* still holds the user's value after the merge, whatever the defaults hold.
C6_UserValuesKept ==
  (mpc = "merged" /\ UserIsObject) =>
     Keeps(FirstCall.pre, user, FirstCall.post, FirstCall.ret)

\* A merge where the user holds null against a default object at the top
\* level, and false against a default object one level down.
C6_Witness ==
  /\ mpc = "merged" /\ UserIsObject
  /\ \/ /\ FirstCall.pre["u"].props["x"] = Null
        /\ FirstCall.pre["d"].props["x"] = Ref("d.x")
     \/ /\ FirstCall.pre["u"].props["x"] = Ref("u.x")
        /\ FirstCall.pre["u.x"].props["x"] = False
        /\ FirstCall.pre["d"].props["x"] = Ref("d.x")
        /\ FirstCall.pre["d.x"].kind = "object"
        /\ FirstCall.pre["d.x"].props["x"] = Ref("d.x.x")

\* The keys of b that read as undefined in a, in heap h.
MissingKeys(h, a, b) ==
  {k \in AllKeys : h[b.v].props[k] # Absent /\ Get(h, a, k) = Undefined}

\* C7: addDefaultValues is complete: every key of the defaults that is
\* absent (undefined) in the user object holds the defaults' value after the
\* merge, and every key of the defaults exists in the result.
C7_DefaultsFilledIn ==
  mpc = "merged" =>
    /\ UserIsObject =>
         \A k \in MissingKeys(FirstCall.pre, user, defs) :
           FirstCall.post[FirstCall.ret.v].props[k] = FirstCall.pre["d"].props[k]
    /\ \A k \in AllKeys :
         FirstCall.pre["d"].props[k] # Absent =>
           FirstCall.post[FirstCall.ret.v].props[k] # Absent

\* A merge that fills in a default for a key the user object lacks and one
\* for a key the user object holds as undefined.
C7_Witness ==
  /\ mpc = "merged" /\ UserIsObject
  /\ FirstCall.pre["u"].props["x"] = Absent
  /\ FirstCall.pre["d"].props["x"] = Ref("d.x")
  /\ FirstCall.pre["u"].props["y"] = Undefined
  /\ FirstCall.pre["d"].props["y"] = P("1")

\* C8: addDefaultValues is idempotent: merging the result of merge(u, d)
\* with d again yields a structurally identical configuration.
C8_Idempotent ==
  mpc = "remerged" =>
    StructEq(calls[1].post, calls[1].ret, calls[2].post, calls[2].ret)

\* A second merge after a first merge that filled in defaults at the top
\* level and recursed into a nested object.
C8_Witness ==
  /\ mpc = "remerged" /\ UserIsObject
  /\ calls[1].pre # calls[1].post
  /\ calls[1].pre["u"].props["x"] = Ref("u.x")
  /\ calls[1].pre["u.x"].props # calls[1].post["u.x"].props
  /\ calls[1].pre["u"].props["y"] = Absent
  /\ calls[1].post["u"].props["y"] # Absent

\* C9: with an absent or falsy user argument the call returns the defaults
\* object itself and changes nothing; otherwise it returns the user object
\* itself.
C9_ReturnsIdentity ==
  mpc = "merged" =>
    IF UserIsObject
      THEN FirstCall.ret = user
      ELSE FirstCall.ret = defs /\ FirstCall.post = FirstCall.pre

\* A call with a falsy user argument against non-empty defaults.
C9_Witness ==
  /\ mpc = "merged"
  /\ user = Null
  /\ FirstCall.ret = Ref("d")
  /\ FirstCall.pre["d"].props["x"] = Ref("d.x")

IsArray(h, v) == v.t = "ref" /\ h[v.v].kind = "array"

\* C10: addDefaultValues never merges arrays element-wise: when user[k] and
\* defaults[k] are both arrays, the array at k after the merge is exactly
\* the user's array, with no element filled in from the default array.
C10_ArraysNotMerged ==
  (mpc = "merged" /\ UserIsObject) =>
    \A k \in AllKeys :
      LET uk == FirstCall.pre["u"].props[k]
          dk == FirstCall.pre["d"].props[k]
      IN (IsArray(FirstCall.pre, uk) /\ IsArray(FirstCall.pre, dk)) =>
           StructEq(FirstCall.post, FirstCall.post["u"].props[k], FirstCall.pre, uk)

\* C11: addDefaultValues never mutates a defaults object: after any sequence
\* of merge calls every object that was passed as the defaults argument,
\* with every object nested in it, is structurally as it was when passed,
\* also when the user argument of a later call is the result of an earlier
\* merge and the later call has other defaults.
C11_DefaultsNeverMutated ==
  \A i \in 1..Len(calls) : StructEq(calls[i].pre, calls[i].b, heap, calls[i].b)

\* ------------------------------------------------------------------------
\* Asset lookup by suffix
\* ------------------------------------------------------------------------
CssIdx == {i \in 1..Len(bundle0) : EndsWithCss(bundle0[i])}
JsIdx == {i \in 1..Len(bundle0) : EndsWithJs(bundle0[i])}
Least(S) == CHOOSE i \in S : \A j \in S : i <= j
\* The document the run ends with: the argument of document.write when a
\* chunk was packed, the returned document otherwise.
FinalHtml == IF inputs # <<>> THEN inputs[1].data.write ELSE result

\* C12: the lookup by suffix acts on the first key of the bundle, in
\* insertion order, that ends with the suffix, and on nothing when none
\* does: after a finished run exactly the first .css key and the first .js
\* key are gone from the bundle, a style element holds the source of the
\* first .css key only, the packed code is the code of the first .js key,
\* and later keys with the same suffix are neither inlined nor deleted.
C12_FirstMatchOnly ==
  (Started /\ tpc = "done") =>
    /\ \A i \in 1..Len(bundle0) :
         (\E j \in 1..Len(bundle) : bundle[j] = bundle0[i]) <=>
           ~(  (CssIdx # {} /\ i = Least(CssIdx))
            \/ (JsIdx # {} /\ i = Least(JsIdx)))
    /\ \A t \in 1..Len(FinalHtml) :
         FinalHtml[t].tag = "style" =>
           /\ CssIdx # {}
           /\ FinalHtml[t].arg = CleanCss(CssSource[bundle0[Least(CssIdx)]])
    /\ (CssIdx # {} /\ bundle0[Least(CssIdx)] # "style.css") => ~HasTag(FinalHtml, "style")
    /\ IF JsIdx = {}
         THEN inputs = <<>>
         ELSE /\ Len(inputs) = 1
              /\ inputs[1].data.code = Trim(JsCode[bundle0[Least(JsIdx)]])

\* Scenario E: a finished run on a bundle whose keys are a .css, a .js and
\* a second .css, with a link to the first in the document: the first is
\* inlined and deleted and the second is still in the bundle.
C12_Witness ==
  /\ Started /\ tpc = "done"
  /\ bundle0 = <<"style.css", "main.js", "extra.css">>
  /\ bundle = <<"extra.css">>
  /\ HasTag(FinalHtml, "style")

\* ------------------------------------------------------------------------
\* Properties of the archive stage
\* ------------------------------------------------------------------------
NotHtml(name) == ~EndsWithHtml(name)

\* C13: the list handed to the archive builder is a permutation of the
\* listed files in which every path ending in .html comes before every
\* other path and the other paths keep their relative order; a single
\* .html path is the first element.
C13_HtmlFirstStable ==
  spc = "sorted" =>
    /\ Len(files) = Len(globbed)
    /\ {files[i] : i \in 1..Len(files)} = {globbed[i] : i \in 1..Len(globbed)}
    /\ \A i, j \in 1..Len(files) :
         (i < j /\ EndsWithHtml(files[j])) => EndsWithHtml(files[i])
    /\ SelectSeq(files, NotHtml) = SelectSeq(globbed, NotHtml)
    /\ Cardinality({i \in 1..Len(globbed) : EndsWithHtml(globbed[i])}) = 1 =>
         EndsWithHtml(files[1])

\* A listing of four files with the only .html path third: the sort moves
\* it to the front and leaves the other three in their order.
C13_Witness ==
  /\ spc = "sorted"
  /\ globbed = <<"main.js", "img.png", "index.html", "font.woff">>
  /\ files = <<"index.html", "main.js", "img.png", "font.woff">>

\* ------------------------------------------------------------------------
\* Properties of readAllFiles
\* ------------------------------------------------------------------------
\* Every directory above path p could be listed.
Listed(p) == \A k \in 0..(Len(p) - 1) : tree[SubSeq(p, 1, k)] = "dir"
FoundFiles ==
  {p \in Paths : Listed(p) /\ tree[p] = "file" /\ (walkReg => RegTest(p))}
Faulty == {p \in Paths : Listed(p) /\ tree[p] \in {"lstatThrows", "readdirThrows"}}

\* C17: readAllFiles never throws: on a root that does not exist it returns
\* the empty sequence, and when lstat or readdir fails on a directory or an
\* entry it returns every file of the other subtrees, each once.
C17_NeverThrowsPartial ==
  wpc = "walked" =>
    /\ ~walked.thrown
    /\ tree[<<>>] = "missing" => walked.arr = <<>>
    /\ {walked.arr[i] : i \in 1..Len(walked.arr)} = FoundFiles
    /\ Len(walked.arr) = Cardinality(FoundFiles)

\* A walk in which lstat fails on an entry of the first directory and the
\* files beside it and after it are returned.
C17_Witness ==
  /\ wpc = "walked"
  /\ tree[<<>>] = "dir" /\ tree[<<1>>] = "dir"
  /\ tree[<<1, 1>>] = "lstatThrows"
  /\ tree[<<1, 2>>] = "file" /\ tree[<<2>>] = "file"
  /\ ~walkReg
  /\ walked.arr = <<(<<1, 2>>), (<<2>>)>>

\* ------------------------------------------------------------------------
\* Properties of the closeBundle hooks
\* ------------------------------------------------------------------------
Done(ev) == {i \in 1..Len(blog) : blog[i].ev = ev}
RequiresEct == "advzip requires ECT plugin to run first - no index.zip found"

\* C14: when the closeBundle of advzipPlugin runs and there is no index.zip
\* in the output directory, it rejects with the error that says that ECT
\* has to run first, and advzip is not executed.
C14_MissingZipRaises ==
  \A i \in Done("advzip.begin") :
    blog[i].zip = "none" =>
      /\ hook["advzip"] = "rejected"
      /\ herror["advzip"] = RequiresEct
      /\ Done("advzip.exec") = {}

\* C15: in a build configured by js13kViteConfig the closeBundle of advzip
\* begins only after ECT was executed and the closeBundle of ECT has
\* resolved.
C15_AdvzipAfterEct ==
  config.kind = "js13k" =>
    \A i \in Done("advzip.begin") :
      \E j \in Done("ect.resolved") :
        /\ j < i
        /\ \E k \in Done("ect.exec") : k < j
        /\ \A k \in Done("ect.exec") : k < i

\* A build of the newer revision in which ECT finished while an image was
\* still being compressed, and advzip was executed after both.
C15_Witness ==
  /\ config.kind = "js13k" /\ version = "v2"
  /\ Done("advzip.exec") # {}
  /\ \E i \in Done("ect.resolved") : blog[i].pendingImg > 0
  /\ \E i \in Done("advzip.begin") : blog[i].pendingImg = 0 /\ blog[i].zip = "built"

\* C16: when ECT or advzip fails, the closeBundle of its plugin rejects
\* with an error that carries the diagnostic of the tool, and reports no
\* size for it.
C16_ToolFailureAborts ==
  /\ Done("ect.failed") # {} =>
       /\ hook["ect"] = "rejected"
       /\ herror["ect"] = "ECT compression failed: diagnostic"
       /\ Done("ect.stats") = {}
  /\ Done("advzip.failed") # {} =>
       /\ hook["advzip"] = "rejected"
       /\ herror["advzip"] = "advzip compression failed: diagnostic"
       /\ Done("advzip.stats") = {}

\* C18: in the closeBundle of imagemin a failure on one file (of the
\* compression, or of reading, stat or writing the file) skips that file
\* only: the hook does not reject, and when no compression is pending it has
\* resolved, every file without a failure is written and no other is.
C18_FileFailureOnlySkips ==
  (bpc # "idle" /\ Has(plugins, "imagemin")) =>
    /\ hook["imagemin"] # "rejected"
    /\ Pending(imgSt) = 0 =>
         /\ hook["imagemin"] = "resolved"
         /\ \A i \in 1..Len(imgSt) : imgSt[i] = "written" <=> imgCond[i] = "ok"

\* C19: with the plugin list of js13kViteConfig, ECT lists the output
\* directory and is executed only when no compression or write of the
\* closeBundle of imagemin is pending.
C19_EctAfterImages ==
  config.kind = "js13k" =>
    \A i \in Done("ect.exec") : blog[i].pendingImg = 0

\* ------------------------------------------------------------------------
\* Properties of the closure compiler plugin
\* ------------------------------------------------------------------------
StartedInv == {i \in 1..MaxInvocations : inv[i].st # "idle"}

\* C20: the temporary files are named uniquely per invocation: two
\* invocations of renderChunk, also two that start in the same clock tick,
\* never use the same closure-input/closure-output name, so the compiler of
\* an invocation reads the code of that invocation and of no other.
C20_UniqueTempFiles ==
  /\ \A i, j \in StartedInv : i # j => inv[i].ts # inv[j].ts
  /\ \A i \in StartedInv : inv[i].read \in {NoFile, i}
  /\ \A i \in StartedInv : inv[i].st = "resolved" => inv[i].result = Compiled(i)

\* No other invocation has used the timestamp of invocation i.
OwnName(i) == \A j \in StartedInv : j # i => inv[j].ts # inv[i].ts

\* C21: when an invocation of the closure compiler has finished, with exit
\* code 0 or not, its temporary input file and its temporary output file
\* are gone from the output directory unless preserveOutput is set; with
\* preserveOutput set the files are kept.
C21_TempFilesCleaned ==
  \A i \in StartedInv :
    (inv[i].st \in {"resolved", "rejected"} /\ OwnName(i)) =>
      IF preserveOutput
        THEN /\ disk[inv[i].ts].input = i
             /\ inv[i].st = "resolved" => disk[inv[i].ts].output = Compiled(i)
        ELSE disk[inv[i].ts] = [input |-> NoFile, output |-> NoFile]

\* ------------------------------------------------------------------------
\* Properties of js13kViteConfig and of the options of imageminPlugin
\* ------------------------------------------------------------------------
\* The plugins whose options are not false, in the fixed order.
EnabledInOrder ==
  (IF ~IsFalse(jsOptions.first)
     THEN <<IF jsVariant = "imagemin" THEN "imagemin" ELSE "closure">> ELSE <<>>)
    \o (IF ~IsFalse(jsOptions.roadrollerOptions) THEN <<"roadroller">> ELSE <<>>)
    \o <<"ect">>
    \o (IF ~IsFalse(jsOptions.advzipOptions) THEN <<"advzip">> ELSE <<>>)

\* C22: passing false as the options of a plugin disables it: the plugin
\* list js13kViteConfig returns is the plugins whose options are not false
\* (imagemin or closure, roadroller, advzip; ECT always), in that order.
C22_FalseDisablesPlugin ==
  gpc = "configured" => jsConfig.plugins = EnabledInOrder

\* Every value the user defined in u, at any depth, is the value in r.
RECURSIVE KeepsValue(_, _)
KeepsValue(u, r) ==
  IF IsObj(u)
    THEN /\ IsObj(r)
         /\ \A k \in DOMAIN u.v :
              ~IsUndefined(u.v[k]) => (k \in DOMAIN r.v /\ KeepsValue(u.v[k], r.v[k]))
    ELSE ~IsObj(r) /\ r = u

\* The option of the build config comes from the top-level option merged
\* with the defaults.
FromTopLevel(top, default, got) ==
  /\ IsUndefined(top) => got = default
  /\ IsObj(top) =>
       /\ KeepsValue(top, got)
       /\ \A k \in DOMAIN default.v : k \in DOMAIN got.v

\* C28: in the build config of js13kViteConfig terserOptions and
\* rollupOptions are the top-level options merged with the defaults, the
\* defaults alone when the top-level option is absent, whatever viteOptions
\* holds under these keys; every other defined key of viteOptions keeps its
\* value.
C28_TopLevelOptionsOnly ==
  gpc = "configured" =>
    LET build == jsConfig.build.v
        vite == jsOptions.viteOptions
    IN /\ FromTopLevel(jsOptions.terserOptions, defaultTerserOptions, build.terserOptions)
       /\ FromTopLevel(jsOptions.rollupOptions, defaultRollupOptions, build.rollupOptions)
       /\ IsObj(vite) =>
            \A k \in (DOMAIN vite.v) \ {"terserOptions", "rollupOptions"} :
              ~IsUndefined(vite.v[k]) => KeepsValue(vite.v[k], build[k])

\* viteOptions holds terserOptions, rollupOptions and assetsDir, and only
\* rollupOptions is given at the top level: the build config has the
\* default terserOptions and the user's assetsDir.
C28_Witness ==
  /\ gpc = "configured"
  /\ IsObj(jsOptions.viteOptions)
  /\ DOMAIN jsOptions.viteOptions.v = {"assetsDir", "terserOptions", "rollupOptions"}
  /\ IsUndefined(jsOptions.terserOptions)
  /\ IsObj(jsOptions.rollupOptions)
  /\ jsConfig.build.v.terserOptions = defaultTerserOptions
  /\ jsConfig.build.v.assetsDir = P("assets")

NoOverrides(x) == IsUndefined(x) \/ (IsObj(x) /\ DOMAIN x.v = {})

\* C29: the compressors of the image plugin are those of the merged
\* configuration, and imageminPlugin(undefined) and imageminPlugin({})
\* enable the same compressors with the same options.
C29_SameCompressors ==
  /\ \A i \in 1..Len(imPlugins) : imPlugins[i] = getImageminPlugins(imMerged[i])
  /\ \A i, j \in 1..Len(imPlugins) :
       (NoOverrides(imPassed[i]) /\ NoOverrides(imPassed[j])) => imPlugins[i] = imPlugins[j]

\* The run has reached the JS embedding phase.
JsPhase == Started /\ Events("packer.optimize") # {}

\* C23: in the JS embedding phase the packer gets exactly one input record
\* of type 'js' and action 'eval' whose data is document.write of the
\* minified document without the chunk's script tag, followed by the
\* trimmed chunk code; makeDecoder is called only after optimize has
\* resolved, and exactly once in a run that finishes.
C23_OneInputDecoderAfterOptimize ==
  /\ JsPhase =>
       /\ JsKey0 # NoKey
       /\ inputs = <<[data |-> [write |-> RemainingHtml, code |-> Trim(JsCode[JsKey0])],
                      type |-> "js", action |-> "eval"]>>
       /\ Cardinality(Events("packer.optimize")) = 1
       /\ \A i \in Events("packer.makeDecoder") :
            \E j \in Events("packer.optimized") : j < i
       /\ \A i \in Events("packer.optimized") :
            \E j \in Events("packer.optimize") : j < i
       /\ Cardinality(Events("packer.makeDecoder")) = (IF tpc = "done" THEN 1 ELSE 0)
  /\ (Started /\ ~JsPhase) =>
       inputs = <<>> /\ Events("packer.makeDecoder") = {} /\ Events("packer.optimized") = {}

\* A finished run on the chunk main.js, whose code has whitespace at both
\* ends, with its script tag and whitespace in the document.
C23_Witness ==
  /\ JsPhase /\ tpc = "done"
  /\ JsKey0 = "main.js"
  /\ HasTag(input, "scriptsrc") /\ HasTag(input, "ws") /\ HasTag(input, "text")
  /\ inputs[1].data.code = <<"console.log(1)">>
  /\ inputs[1].data.write = <<Text>>
  /\ Cardinality(Events("packer.makeDecoder")) = 1

InBundle(k) == \E i \in 1..Len(bundle) : bundle[i] = k

\* C25: whenever the transform has removed the CSS entry from the bundle,
\* the document handed to the HTML minifier holds a <style> element with
\* the minified CSS of that asset.
C25_CssNeverLost ==
  (Started /\ CssKey0 # NoKey /\ ~InBundle(CssKey0)) =>
    \E i \in Events("htmlMinify.call") :
      \E j \in 1..Len(log[i].doc) :
        log[i].doc[j] = Style(CleanCss(CssSource[CssKey0]))

\* C26: the CSS entry is out of the bundle while the HTML minifier runs, the
\* JS entry leaves the bundle only after the packer has made its decoder,
\* and after a failure of the HTML minifier or of the packer the bundle is
\* the original one without the CSS entry: the JS entry is still there and
\* nothing is rolled back.
C26_NoRollback ==
  Started =>
    /\ (tpc = "minifying" /\ CssKey0 # NoKey) => ~InBundle(CssKey0)
    /\ (JsKey0 # NoKey /\ ~InBundle(JsKey0)) => Events("packer.makeDecoder") # {}
    /\ (tpc = "rejected" /\ error \in {"htmlMinify", "packer"}) =>
         /\ bundle = Delete(bundle0, CssKey0)
         /\ CssKey0 # NoKey => ~InBundle(CssKey0)
         /\ JsKey0 # NoKey => InBundle(JsKey0)

\* The packer failed on a bundle with a CSS asset and a JS chunk.
C26_Witness ==
  /\ Started /\ tpc = "rejected" /\ error = "packer"
  /\ CssKey0 # NoKey /\ JsKey0 # NoKey
  /\ ~InBundle(CssKey0) /\ InBundle(JsKey0)
  /\ bundle # bundle0

\* C27: a transform called without a context or without a bundle returns
\* the input document unchanged, calls none of the CSS minifier, the HTML
\* minifier and the packer, and changes nothing.
C27_DevServerPassThrough ==
  (tpc # "idle" /\ mode \in {"noctx", "nobundle"}) =>
    /\ tpc = "done"
    /\ result = input
    /\ log = <<>>
    /\ inputs = <<>>
    /\ html = <<>>
    /\ bundle = bundle0
    /\ error = ""

\* A call without a bundle on a document with a link, whitespace and a
\* script tag.
C27_Witness ==
  /\ tpc = "done" /\ mode = "nobundle"
  /\ HasTag(input, "link") /\ HasTag(input, "ws") /\ HasTag(input, "scriptsrc")
  /\ result = input

\* C24: whenever advzip is run on an index.zip, that file was written by
\* ECT in the same build; an index.zip left by an earlier build is never
\* recompressed.
C24_NeverRecompressesStale ==
  \A i \in Done("advzip.exec") : blog[i].zip # "none" => blog[i].zip = "built"

\* The compressions of image f written back before position k of the log.
WrittenBefore(f, k) == {j \in 1..(k - 1) : rlog[j].ev = "written" /\ rlog[j].file = f}
Latest(S) == CHOOSE j \in S : \A i \in S : i <= j

\* C30: over the closeBundle runs of one plugin instance an image already
\* compressed is read for compression again only when the modification
\* time of its output file is strictly greater than the timestamp cached at
\* its last compression, and the cache holds for each image the timestamp
\* of its last compression that was written back, nothing before the first.
C30_RecompressedOnlyIfNewer ==
  /\ \A k \in 1..Len(rlog) :
       rlog[k].ev = "read" =>
         LET w == WrittenBefore(rlog[k].file, k)
         IN w # {} => rlog[k].mtime > rlog[Latest(w)].stamp
  /\ \A k \in 1..Len(rlog) :
       rlog[k].ev = "written" =>
         \E j \in 1..(k - 1) :
           rlog[j].ev = "read" /\ rlog[j].file = rlog[k].file /\ rlog[j].run = rlog[k].run
  /\ \A f \in PublicImages :
       LET w == WrittenBefore(f, Len(rlog) + 1)
       IN IF w = {} THEN f \notin DOMAIN cachedMs
          ELSE f \in DOMAIN cachedMs /\ cachedMs[f] = rlog[Latest(w)].stamp

\* In the second run one image, copied again since its compression, was
\* compressed again, and another, compressed in the first run and still in
\* the output directory, was passed over.
C30_Witness ==
  /\ runs = 2 /\ rpc = "idle"
  /\ \E f, g \in PublicImages :
       /\ f # g
       /\ \E k \in 1..Len(rlog) :
            rlog[k].ev = "read" /\ rlog[k].file = f /\ rlog[k].run = 2
              /\ WrittenBefore(f, k) # {}
       /\ handles[f] = "written"
       /\ handles[g] = "returned" /\ g \in outFiles /\ g \in DOMAIN cachedMs
====
